---- MODULE Spec2Model ----
(***************************************************************************)
(* Model of the CDES TypeScript SDK: the cannabinoid name resolver and the *)
(* distance (cannabinoids.ts), the format-detecting parser (parser.ts) and *)
(* the profile analyzer (analyzer.ts), and the cache of the reference data *)
(* (reference.ts).                                                         *)
(*                                                                         *)
(* JavaScript values are tagged records, so that values of different       *)
(* JavaScript types can be compared: Num(n), Str(s), Arr(s), Null,         *)
(* Undefined, NaN.  A string is a sequence of one-character strings.  An   *)
(* object is a record of its own properties; an absent property is a field *)
(* the record does not have.  Numbers are integers.                        *)
(***************************************************************************)
EXTENDS Integers, Sequences, FiniteSets, TLC

VARIABLES
    op,           \* the library function the caller invokes
    pc,           \* "call": about to run, "done": returned
    data,         \* argument of CDESParser.parseDataView
    result,       \* its return value (CDESParsedData)
    batches,      \* argument of parseBatchJSON (one record) / parseBatchesJSON
    profiles,     \* their return value
    name,         \* argument of getCannabioidDisplayName
    displayName,  \* its return value
    profile1,     \* arguments of calculateEuclideanDistance (two Maps) and of
    profile2,     \*   CDESAnalyzer.compareProfiles (two profiles)
    targetProfile,  \* arguments of CDESAnalyzer.findSimilarProfiles
    allProfiles,
    limit,
    minSimilarity,
    profileArg,   \* argument (profile) of classifyStrain and scoreProfileCompleteness
    analysis,     \* return value of the analyzer function called
    cache,        \* the four cache variables of reference.ts
    callers,      \* the calls made to the functions of reference.ts
    fetches,      \* the network requests they have issued
    cleared       \* number of clearReferenceCache calls

analyzerVars ==
    <<profile1, profile2, targetProfile, allProfiles, limit, minSimilarity, profileArg,
      analysis>>

referenceVars == <<cache, callers, fetches, cleared>>

vars == <<op, pc, data, result, batches, profiles, name, displayName, analyzerVars,
          referenceVars>>

-----------------------------------------------------------------------------
(* JavaScript values *)

Num(n) == [num |-> n]
Str(s) == [str |-> s]
Arr(s) == [arr |-> s]
Null == [null |-> TRUE]
Undefined == [undefined |-> TRUE]
NaN == [nan |-> TRUE]

IsNum(v) == DOMAIN v = {"num"}
IsStr(v) == DOMAIN v = {"str"}
IsArr(v) == DOMAIN v = {"arr"}

\* obj.field, undefined when the object has no such own property; also obj?.field
Get(obj, field) == IF field \in DOMAIN obj THEN obj[field] ELSE Undefined

\* ToBoolean: the falsy values are undefined, null, 0, NaN and ""
Truthy(v) == ~ (v = Undefined \/ v = Null \/ v = Num(0) \/ v = NaN \/ v = Str(<<>>))

\* a || b
Or(a, b) == IF Truthy(a) THEN a ELSE b

\* arr[i], 0-based, undefined beyond the end
At(arr, i) == IF i >= 0 /\ i < Len(arr.arr) THEN arr.arr[i + 1] ELSE Undefined

Length(arr) == Len(arr.arr)

Min(a, b) == IF a <= b THEN a ELSE b

-----------------------------------------------------------------------------
(* Strings *)

Digits == <<"0", "1", "2", "3", "4", "5", "6", "7", "8", "9">>
LowerLetters == <<"a", "b", "c", "d", "e", "f", "g", "h", "i", "j", "k", "l", "m",
                  "n", "o", "p", "q", "r", "s", "t", "u", "v", "w", "x", "y", "z">>
UpperLetters == <<"A", "B", "C", "D", "E", "F", "G", "H", "I", "J", "K", "L", "M",
                  "N", "O", "P", "Q", "R", "S", "T", "U", "V", "W", "X", "Y", "Z">>
WhiteSpace == {" ", "\t", "\n"}

IndexOf(seq, c) == IF \E i \in 1..Len(seq) : seq[i] = c
                   THEN CHOOSE i \in 1..Len(seq) : seq[i] = c
                   ELSE 0

RECURSIVE NatToString(_)
NatToString(n) == IF n < 10 THEN <<Digits[n + 1]>>
                  ELSE NatToString(n \div 10) \o <<Digits[(n % 10) + 1]>>

\* String(v) for the primitive values and for arrays (the elements joined by
\* commas, null and undefined elements as the empty string)
RECURSIVE String(_)
String(v) ==
    IF IsStr(v) THEN v.str
    ELSE IF IsNum(v) THEN (IF v.num < 0 THEN <<"-">> \o NatToString(-v.num)
                           ELSE NatToString(v.num))
    ELSE IF IsArr(v)
    THEN IF v.arr = <<>> THEN <<>>
         ELSE LET first == IF Head(v.arr) \in {Null, Undefined} THEN <<>>
                           ELSE String(Head(v.arr))
              IN IF Len(v.arr) = 1 THEN first
                 ELSE first \o <<",">> \o String(Arr(Tail(v.arr)))
    ELSE IF v = Null THEN <<"n", "u", "l", "l">>
    ELSE IF v = NaN THEN <<"N", "a", "N">>
    ELSE <<"u", "n", "d", "e", "f", "i", "n", "e", "d">>

toUpperCaseChar(c) ==
    IF IndexOf(LowerLetters, c) # 0 THEN UpperLetters[IndexOf(LowerLetters, c)] ELSE c

RECURSIVE toUpperCase(_)
toUpperCase(s) == IF s = <<>> THEN <<>>
                  ELSE <<toUpperCaseChar(Head(s))>> \o toUpperCase(Tail(s))

RECURSIVE trimStart(_)
trimStart(s) == IF s # <<>> /\ Head(s) \in WhiteSpace THEN trimStart(Tail(s)) ELSE s

RECURSIVE trimEnd(_)
trimEnd(s) == IF s # <<>> /\ s[Len(s)] \in WhiteSpace
              THEN trimEnd(SubSeq(s, 1, Len(s) - 1)) ELSE s

trim(s) == trimEnd(trimStart(s))

\* s.replace(/[chars]/g, "")
RECURSIVE removeAll(_, _)
removeAll(s, chars) ==
    IF s = <<>> THEN <<>>
    ELSE IF Head(s) \in chars THEN removeAll(Tail(s), chars)
    ELSE <<Head(s)>> \o removeAll(Tail(s), chars)

\* s.substring(0, n)
substring0(s, n) == SubSeq(s, 1, Min(n, Len(s)))

\* hay.includes(needle)
includes(hay, needle) ==
    \E i \in 0..(Len(hay) - Len(needle)) : SubSeq(hay, i + 1, i + Len(needle)) = needle

RECURSIVE DigitsToNat(_)
DigitsToNat(s) == IF s = <<>> THEN 0
                  ELSE 10 * DigitsToNat(SubSeq(s, 1, Len(s) - 1))
                       + (IndexOf(Digits, s[Len(s)]) - 1)

AllDigits(s) == s # <<>> /\ \A i \in 1..Len(s) : IndexOf(Digits, s[i]) # 0

\* Number(v): a decimal integer literal with optional sign and surrounding white
\* space converts to its value, the empty string and null to 0, anything else to NaN
StringToNumber(s) ==
    LET t == trim(s) IN
    IF t = <<>> THEN Num(0)
    ELSE IF AllDigits(t) THEN Num(DigitsToNat(t))
    ELSE IF Head(t) = "-" /\ AllDigits(Tail(t)) THEN Num(0 - DigitsToNat(Tail(t)))
    ELSE IF Head(t) = "+" /\ AllDigits(Tail(t)) THEN Num(DigitsToNat(Tail(t)))
    ELSE NaN

Number(v) ==
    IF IsNum(v) THEN v
    ELSE IF v = Null THEN Num(0)
    ELSE IF IsStr(v) THEN StringToNumber(v.str)
    ELSE NaN

-----------------------------------------------------------------------------
(* cannabinoids.ts *)

THC == <<"T", "H", "C">>
CBD == <<"C", "B", "D">>
CBN == <<"C", "B", "N">>
CBG == <<"C", "B", "G">>
CBC == <<"C", "B", "C">>
THCV == <<"T", "H", "C", "V">>
CBDV == <<"C", "B", "D", "V">>
CBDA == <<"C", "B", "D", "A">>
THCA == <<"T", "H", "C", "A">>

\* Object.keys(STANDARD_CANNABINOIDS), in insertion order
STANDARD_CANNABINOIDS == <<THC, CBD, CBN, CBG, CBC, THCV, CBDV, CBDA, THCA>>

NormalizedLength == 5

\* fault: the name is not cut to 5 characters
normalizeWithoutCut(s) ==
    removeAll(removeAll(trim(toUpperCase(s)), WhiteSpace \cup {"-", "_"}), {"%"})

normalizeCannabioidName(s) ==
    substring0(removeAll(removeAll(trim(toUpperCase(s)), WhiteSpace \cup {"-", "_"}),
                         {"%"}),
               NormalizedLength)

\* the for-of loop of getCannabioidDisplayName from key number i on
RECURSIVE ScanKeys(_, _, _)
ScanKeys(raw, normalized, i) ==
    IF i > Len(STANDARD_CANNABINOIDS) THEN raw
    ELSE IF includes(STANDARD_CANNABINOIDS[i], normalized)
            \/ includes(normalized, STANDARD_CANNABINOIDS[i])
         THEN STANDARD_CANNABINOIDS[i]
    ELSE ScanKeys(raw, normalized, i + 1)

getCannabioidDisplayName(s) == ScanKeys(s, normalizeCannabioidName(s), 1)

-----------------------------------------------------------------------------
(* JavaScript Map: a sequence of entries in insertion order *)

MapHas(m, k) == \E i \in 1..Len(m) : m[i].key = k

MapGet(m, k) == m[CHOOSE i \in 1..Len(m) : m[i].key = k].value

\* set keeps the position of an existing key and appends a new one
RECURSIVE MapSet(_, _, _)
MapSet(m, k, v) ==
    IF m = <<>> THEN <<[key |-> k, value |-> v]>>
    ELSE IF Head(m).key = k THEN <<[key |-> k, value |-> v]>> \o Tail(m)
    ELSE <<Head(m)>> \o MapSet(Tail(m), k, v)

MapKeys(m) == {m[i].key : i \in 1..Len(m)}

\* fault: the reducer returns val instead of sum + val
SumValuesLastOnly(m) == IF m = <<>> THEN 0 ELSE m[Len(m)].value

\* Array.from(m.values()).reduce((sum, val) => sum + val, 0)
RECURSIVE SumValues(_)
SumValues(m) == IF m = <<>> THEN 0
                ELSE SumValues(SubSeq(m, 1, Len(m) - 1)) + m[Len(m)].value

-----------------------------------------------------------------------------
(* parser.ts *)

\* reading a property of null or undefined throws a TypeError
Threw == [threw |-> "TypeError"]

Nullish(v) == v = Null \/ v = Undefined

UnknownResult == [profiles |-> <<>>, parseMode |-> "unknown", recordsProcessed |-> 0]

\* fault: the profiles are put in front of the array instead of pushed
RECURSIVE BuildProfilesUnshift(_, _, _)
BuildProfilesUnshift(batchMap, profileNames, i) ==
    IF i > Len(batchMap) THEN <<>>
    ELSE BuildProfilesUnshift(batchMap, profileNames, i + 1)
         \o <<[batchId |-> batchMap[i].key,
                batchName |-> batchMap[i].key,
                cannabinoids |-> batchMap[i].value,
                totalCannabinoids |-> SumValues(batchMap[i].value)]>>

\* the loop that turns the Map of batches into the profile array
RECURSIVE BuildProfiles(_, _, _)
BuildProfiles(batchMap, profileNames, i) ==
    IF i > Len(batchMap) THEN <<>>
    ELSE LET batchId == batchMap[i].key
             cannabinoids == batchMap[i].value
         IN <<[batchId |-> batchId,
               batchName |-> Or(Str(MapGet(profileNames, batchId)), Str(batchId)).str,
               cannabinoids |-> cannabinoids,
               totalCannabinoids |-> SumValues(cannabinoids)]>>
            \o BuildProfiles(batchMap, profileNames, i + 1)

\* Number(x) || 0
NumberOr0(x) == Or(Number(x), Num(0)).num

\* fault: a percentage is added to the one already stored for the code
StandardRowAdding(acc, batchIds, cannabinoidNames, percentages, i) ==
    LET batchId == String(At(batchIds, i))
        percentage == NumberOr0(At(percentages, i))
        created == IF MapHas(acc.profiles, batchId) THEN acc.profiles
                   ELSE MapSet(acc.profiles, batchId, <<>>)
        profile == MapGet(created, batchId)
        display == getCannabioidDisplayName(String(At(cannabinoidNames, i)))
        stored == IF MapHas(profile, display) THEN MapGet(profile, display) ELSE 0
    IN [profiles |-> IF percentage > 0
                     THEN MapSet(created, batchId,
                                 MapSet(profile, display, stored + percentage))
                     ELSE created,
        profileNames |-> MapSet(acc.profileNames, batchId, batchId),
        recordsProcessed |-> acc.recordsProcessed + 1]

\* fault: a row without a positive percentage removes the value stored for its code
StandardRowClearing(acc, batchIds, cannabinoidNames, percentages, i) ==
    LET batchId == String(At(batchIds, i))
        percentage == NumberOr0(At(percentages, i))
        created == IF MapHas(acc.profiles, batchId) THEN acc.profiles
                   ELSE MapSet(acc.profiles, batchId, <<>>)
        names == IF MapHas(acc.profiles, batchId) THEN acc.profileNames
                 ELSE MapSet(acc.profileNames, batchId, batchId)
        profile == MapGet(created, batchId)
        display == getCannabioidDisplayName(String(At(cannabinoidNames, i)))
    IN [profiles |-> IF percentage > 0
                     THEN MapSet(created, batchId, MapSet(profile, display, percentage))
                     ELSE MapSet(created, batchId,
                                 SelectSeq(profile, LAMBDA e : e.key # display)),
        profileNames |-> names,
        recordsProcessed |-> acc.recordsProcessed + 1]

\* fault: the profile of a batch is created only with its first positive percentage
StandardRowLazy(acc, batchIds, cannabinoidNames, percentages, i) ==
    LET batchId == String(At(batchIds, i))
        percentage == NumberOr0(At(percentages, i))
        created == IF MapHas(acc.profiles, batchId) THEN acc.profiles
                   ELSE MapSet(acc.profiles, batchId, <<>>)
        names == IF MapHas(acc.profiles, batchId) THEN acc.profileNames
                 ELSE MapSet(acc.profileNames, batchId, batchId)
        profile == MapGet(created, batchId)
        display == getCannabioidDisplayName(String(At(cannabinoidNames, i)))
    IN [profiles |-> IF percentage > 0
                     THEN MapSet(created, batchId, MapSet(profile, display, percentage))
                     ELSE acc.profiles,
        profileNames |-> IF percentage > 0 THEN names ELSE acc.profileNames,
        recordsProcessed |-> acc.recordsProcessed + 1]

\* one iteration of the row loop of parseStandardStructure
StandardRow(acc, batchIds, cannabinoidNames, percentages, i) ==
    LET batchId == String(At(batchIds, i))
        cannabinoidName == String(At(cannabinoidNames, i))
        percentage == NumberOr0(At(percentages, i))
        created == IF MapHas(acc.profiles, batchId) THEN acc.profiles
                   ELSE MapSet(acc.profiles, batchId, <<>>)
        names == IF MapHas(acc.profiles, batchId) THEN acc.profileNames
                 ELSE MapSet(acc.profileNames, batchId, batchId)
        profile == MapGet(created, batchId)
        display == getCannabioidDisplayName(cannabinoidName)
    IN [profiles |-> IF percentage > 0
                     THEN MapSet(created, batchId, MapSet(profile, display, percentage))
                     ELSE created,
        profileNames |-> names,
        recordsProcessed |-> acc.recordsProcessed + 1]

RECURSIVE StandardLoop(_, _, _, _, _)
StandardLoop(acc, batchIds, cannabinoidNames, percentages, i) ==
    IF i < Min(Length(batchIds), Length(cannabinoidNames))
    THEN StandardLoop(StandardRow(acc, batchIds, cannabinoidNames, percentages, i),
                      batchIds, cannabinoidNames, percentages, i + 1)
    ELSE acc

EmptyAcc == [profiles |-> <<>>, profileNames |-> <<>>, recordsProcessed |-> 0]

\* data.values[0] throws when data.values is absent
parseStandardStructure(d) ==
    IF Nullish(Get(d, "values")) THEN Threw ELSE
    LET batchIds == Or(Get(At(d.categories, 0), "values"), Arr(<<>>))
        cannabinoidNames == Or(Get(At(d.categories, 1), "values"), Arr(<<>>))
        percentages == Or(Get(At(d.values, 0), "values"), Arr(<<>>))
        acc == StandardLoop(EmptyAcc, batchIds, cannabinoidNames, percentages, 0)
    IN [profiles |-> BuildProfiles(acc.profiles, acc.profileNames, 1),
        parseMode |-> "standard",
        recordsProcessed |-> acc.recordsProcessed]

\* fault: the columns are taken in the order of the registry (CBDA before THCA)
cdesColumnsRegistryOrder == STANDARD_CANNABINOIDS

\* Standard CDES column order (cdesColumns, and cdesFields of parseBatchJSON)
cdesColumns == <<THC, CBD, CBN, CBG, CBC, THCV, CBDV, THCA, CBDA>>

\* the inner loop of parseCDESStructure over the measure columns, for row i
RECURSIVE CDESColumnLoop(_, _, _, _)
CDESColumnLoop(profile, values, i, colIdx) ==
    IF colIdx < Min(Len(cdesColumns), Length(values))
    THEN LET valueArray == Or(Get(At(values, colIdx), "values"), Arr(<<>>))
             percentage == NumberOr0(At(valueArray, i))
         IN CDESColumnLoop(IF percentage > 0
                           THEN MapSet(profile, cdesColumns[colIdx + 1], percentage)
                           ELSE profile,
                           values, i, colIdx + 1)
    ELSE profile

\* fault: recordsProcessed is counted once per new batch instead of once per row
CDESRowCountingBatches(acc, batchIds, values, i) ==
    LET batchId == String(At(batchIds, i))
        created == IF MapHas(acc.profiles, batchId) THEN acc.profiles
                   ELSE MapSet(acc.profiles, batchId, <<>>)
    IN [profiles |-> MapSet(created, batchId,
                            CDESColumnLoop(MapGet(created, batchId), values, i, 0)),
        profileNames |-> MapSet(acc.profileNames, batchId, batchId),
        recordsProcessed |-> IF MapHas(acc.profiles, batchId) THEN acc.recordsProcessed
                             ELSE acc.recordsProcessed + 1]

\* one iteration of the row loop of parseCDESStructure
CDESRow(acc, batchIds, values, i) ==
    LET batchId == String(At(batchIds, i))
        created == IF MapHas(acc.profiles, batchId) THEN acc.profiles
                   ELSE MapSet(acc.profiles, batchId, <<>>)
        names == IF MapHas(acc.profiles, batchId) THEN acc.profileNames
                 ELSE MapSet(acc.profileNames, batchId, batchId)
        profile == MapGet(created, batchId)
    IN [profiles |-> MapSet(created, batchId, CDESColumnLoop(profile, values, i, 0)),
        profileNames |-> names,
        recordsProcessed |-> acc.recordsProcessed + 1]

RECURSIVE CDESLoop(_, _, _, _)
CDESLoop(acc, batchIds, values, i) ==
    IF i < Length(batchIds)
    THEN CDESLoop(CDESRow(acc, batchIds, values, i), batchIds, values, i + 1)
    ELSE acc

\* data.values.length, read in every row, throws when data.values is absent
parseCDESStructure(d) ==
    LET batchIds == Or(Get(At(d.categories, 0), "values"), Arr(<<>>))
        acc == CDESLoop(EmptyAcc, batchIds, Get(d, "values"), 0)
    IN IF Length(batchIds) > 0 /\ Nullish(Get(d, "values")) THEN Threw ELSE
       [profiles |-> BuildProfiles(acc.profiles, acc.profileNames, 1),
        parseMode |-> "cdes",
        recordsProcessed |-> acc.recordsProcessed]

\* the guard of the first attempt
StandardGuard(d) ==
    /\ Length(d.categories) >= 2
    /\ Truthy(Get(d, "values"))
    /\ Length(d.values) > 0

\* the guard of the fallback
CDESGuard(d) ==
    /\ Length(d.categories) >= 1
    /\ Truthy(Get(d, "values"))

\* fault: the CDES structure is tried before the standard structure
parseDataViewCDESFirst(d) ==
    IF ~ Truthy(Get(d, "categories")) \/ Length(d.categories) = 0
    THEN UnknownResult
    ELSE IF CDESGuard(d) /\ Len(parseCDESStructure(d).profiles) > 0
    THEN parseCDESStructure(d)
    ELSE IF StandardGuard(d) /\ Len(parseStandardStructure(d).profiles) > 0
    THEN parseStandardStructure(d)
    ELSE UnknownResult

\* fault: the fallback result is returned without looking at its profiles
parseDataViewKeepsEmpty(d) ==
    IF ~ Truthy(Get(d, "categories")) \/ Length(d.categories) = 0
    THEN UnknownResult
    ELSE IF StandardGuard(d) /\ Len(parseStandardStructure(d).profiles) > 0
    THEN parseStandardStructure(d)
    ELSE IF CDESGuard(d)
    THEN parseCDESStructure(d)
    ELSE UnknownResult

parseDataView(d) ==
    IF ~ Truthy(Get(d, "categories")) \/ Length(d.categories) = 0
    THEN UnknownResult
    ELSE IF StandardGuard(d) /\ Len(parseStandardStructure(d).profiles) > 0
    THEN parseStandardStructure(d)
    ELSE IF CDESGuard(d) /\ Len(parseCDESStructure(d).profiles) > 0
    THEN parseCDESStructure(d)
    ELSE UnknownResult

-----------------------------------------------------------------------------
(* parseBatchJSON, parseBatchesJSON *)

\* the property name of an object for a string value
RECURSIVE Key(_)
Key(s) == IF s = <<>> THEN "" ELSE Head(s) \o Key(Tail(s))

toLowerCaseChar(c) ==
    IF IndexOf(UpperLetters, c) # 0 THEN LowerLetters[IndexOf(UpperLetters, c)] ELSE c

RECURSIVE toLowerCase(_)
toLowerCase(s) == IF s = <<>> THEN <<>>
                  ELSE <<toLowerCaseChar(Head(s))>> \o toLowerCase(Tail(s))

unknown == <<"u", "n", "k", "n", "o", "w", "n">>

\* fault: every number is stored, also 0 and negative ones
RECURSIVE FieldLoopAnyNumber(_, _, _)
FieldLoopAnyNumber(cannabinoids, batch, i) ==
    IF i > Len(cdesColumns) THEN cannabinoids
    ELSE LET value == Or(Get(batch, Key(toLowerCase(cdesColumns[i]))),
                         Get(batch, Key(cdesColumns[i])))
         IN FieldLoopAnyNumber(IF IsNum(value)
                               THEN MapSet(cannabinoids, cdesColumns[i], value.num)
                               ELSE cannabinoids,
                               batch, i + 1)

\* fault: the exact-case key is looked up before the lower-cased one
RECURSIVE FieldLoopExactFirst(_, _, _)
FieldLoopExactFirst(cannabinoids, batch, i) ==
    IF i > Len(cdesColumns) THEN cannabinoids
    ELSE LET value == Or(Get(batch, Key(cdesColumns[i])),
                         Get(batch, Key(toLowerCase(cdesColumns[i]))))
         IN FieldLoopExactFirst(IF IsNum(value) /\ value.num > 0
                                THEN MapSet(cannabinoids, cdesColumns[i], value.num)
                                ELSE cannabinoids,
                                batch, i + 1)

\* the loop of parseBatchJSON over cdesFields, from field number i on
RECURSIVE FieldLoop(_, _, _)
FieldLoop(cannabinoids, batch, i) ==
    IF i > Len(cdesColumns) THEN cannabinoids
    ELSE LET field == cdesColumns[i]
             value == Or(Get(batch, Key(toLowerCase(field))), Get(batch, Key(field)))
         IN FieldLoop(IF IsNum(value) /\ value.num > 0
                      THEN MapSet(cannabinoids, field, value.num)
                      ELSE cannabinoids,
                      batch, i + 1)

\* fault: a name or a strain that is present is taken even when it is empty (??)
parseBatchJSONNamePresent(batch) ==
    IF Nullish(batch) THEN Threw
    ELSE LET batchId == String(Or(Or(Get(batch, "id"), Get(batch, "batchId")),
                                  Str(unknown)))
             cannabinoids == FieldLoop(<<>>, batch, 1)
             label == IF ~ Nullish(Get(batch, "name")) THEN batch.name
                      ELSE IF ~ Nullish(Get(batch, "strain")) THEN batch.strain
                      ELSE Str(batchId)
         IN [batchId |-> batchId,
             batchName |-> String(label),
             cannabinoids |-> cannabinoids,
             totalCannabinoids |-> SumValues(cannabinoids)]

parseBatchJSON(batch) ==
    IF Nullish(batch) THEN Threw
    ELSE LET batchId == String(Or(Or(Get(batch, "id"), Get(batch, "batchId")),
                                  Str(unknown)))
             cannabinoids == FieldLoop(<<>>, batch, 1)
         IN [batchId |-> batchId,
             batchName |-> String(Or(Or(Get(batch, "name"), Get(batch, "strain")),
                                     Str(batchId))),
             cannabinoids |-> cannabinoids,
             totalCannabinoids |-> SumValues(cannabinoids)]

\* fault: a record whose batchId an earlier record has is dropped
parseBatchesJSONMerging(bs) ==
    IF \E i \in 1..Length(bs) : parseBatchJSON(At(bs, i - 1)) = Threw THEN Threw
    ELSE LET all == [i \in 1..Length(bs) |-> parseBatchJSON(At(bs, i - 1))]
             kept == SelectSeq([i \in 1..Length(bs) |-> i],
                               LAMBDA i : \A j \in 1..(i - 1) :
                                              all[j].batchId # all[i].batchId)
         IN Arr([k \in 1..Len(kept) |-> all[kept[k]]])

\* batches.map(parseBatchJSON): an exception in one element ends the whole call
parseBatchesJSON(bs) ==
    IF \E i \in 1..Length(bs) : parseBatchJSON(At(bs, i - 1)) = Threw THEN Threw
    ELSE Arr([i \in 1..Length(bs) |-> parseBatchJSON(At(bs, i - 1))])

-----------------------------------------------------------------------------
(* The inputs of the calls *)

MaxRows == 2          \* rows of the exhaustively enumerated long-form tables
MaxInterleave == 4    \* rows of the tables that interleave the batches
MaxWideRows == 2      \* rows of the wide-form tables
MaxValueCols == 10    \* measure columns of the wide-form tables
MaxRepeats == 3       \* rows of the tables that repeat one batch and one code
MaxBatches == 2       \* records handed to parseBatchesJSON

\* the sequences over S of a length from m to n
SeqsFromTo(S, m, n) == UNION {[1..k -> S] : k \in m..n}

\* an object with one own property, and the object with none
Prop(k, v) == k :> v
NoProps == [k \in {} |-> Undefined]
Optional(k, vs) == {NoProps} \cup {Prop(k, v) : v \in vs}

Column(cells) == [values |-> Arr(cells)]
NoValuesColumn == [source |-> [displayName |-> Str(<<"x">>)]]
Table(cats, vals) == [categories |-> Arr(cats), values |-> Arr(vals)]

b1 == <<"b", "1">>
thcPercent == <<"t", "h", "c", " ", "%">>
Foo == <<"F", "o", "o">>
abc == <<"a", "b", "c">>

\* 1 and "1" are different cells with the same String()
BatchCells == {Str(b1), Num(1), Str(<<"1">>)}
LabelCells == {Str(THC), Str(thcPercent), Str(Foo)}
PctCells == {Num(20), Num(7), Num(0)}
\* negative, null, non-numeric text, numeric text, empty text
OddCells == {Num(-5), Null, Str(abc), Str(<<" ", "7">>), Str(<<>>), NaN}

Pick(rows, j) == [i \in 1..Len(rows) |-> rows[i][j]]

LongTable(rows) ==
    Table(<<Column(Pick(rows, 1)), Column(Pick(rows, 2))>>, <<Column(Pick(rows, 3))>>)

\* the rows of the exhaustively enumerated tables batch | cannabinoid | value
LongRows == BatchCells \X LabelCells \X PctCells

\* one batch, values of every kind
OddRows == {Str(b1)} \X {Str(THC), Str(Foo)} \X (OddCells \cup {Num(20)})

\* longer tables: any order of the batches bs, a different value in every row
InterleavedLong(bs) ==
    Table(<<Column(bs),
            Column([i \in 1..Len(bs) |-> IF i % 2 = 1 THEN Str(THC) ELSE Str(CBD)])>>,
          <<Column([i \in 1..Len(bs) |-> Num(10 + i)])>>)

InterleavedWide(bs) ==
    Table(<<Column(bs)>>,
          <<Column([i \in 1..Len(bs) |-> Num(10 + i)]),
            Column([i \in 1..Len(bs) |-> IF i % 2 = 1 THEN Num(30 + i) ELSE Num(0)])>>)

\* rows of one batch and one code, under two labels, with a value of any kind each
RepeatedLong(cells) ==
    Table(<<Column([i \in 1..Len(cells) |-> Str(b1)]),
            Column([i \in 1..Len(cells) |-> IF i % 2 = 1 THEN Str(THC)
                                            ELSE Str(thcPercent)])>>,
          <<Column(cells)>>)
RepeatedCells == {Num(20), Num(7), Num(0), Str(abc)}

\* the shapes: absent, null, empty, short, long and value-less parts
Col0Shapes == {NoValuesColumn, Null, Column(<<>>), Column(<<Str(b1)>>),
               Column(<<Str(b1), Num(1)>>)}
Col1Shapes == {NoValuesColumn, Column(<<>>), Column(<<Str(THC)>>),
               Column(<<Str(THC), Str(Foo), Str(THC)>>)}
CategoryShapes ==
    {Null, Arr(<<>>)}
    \cup {Arr(<<c0>>) : c0 \in Col0Shapes}
    \cup {Arr(<<c0, c1>>) : c0 \in Col0Shapes, c1 \in Col1Shapes}
    \cup {Arr(<<c0, c1, Column(<<Str(Foo)>>)>>) : c0 \in Col0Shapes, c1 \in Col1Shapes}
ValueColShapes == {NoValuesColumn, Null, Column(<<>>), Column(<<Num(20)>>),
                   Column(<<Num(0), Num(7)>>), Column(<<Num(20), Num(7), Num(5)>>)}
ValueShapes ==
    {Null, Arr(<<>>)}
    \cup {Arr(<<v>>) : v \in ValueColShapes}
    \cup {Arr(<<v, Column(<<Num(3), Num(4)>>)>>) : v \in ValueColShapes}
ShapeTables ==
    {c @@ v : c \in Optional("categories", CategoryShapes),
              v \in Optional("values", ValueShapes)}
    \cup {Undefined, Null}

\* the cell of measure column c (0-based) in a wide-form row of pattern p
WideCell(p, c) ==
    CASE p = 1 -> Num(c + 1)
      [] p = 2 -> Num(40 - c)
      [] p = 3 -> IF c % 2 = 0 THEN Num(0) ELSE Num(50 + c)
      [] OTHER -> IF c % 3 = 0 THEN Null ELSE IF c % 3 = 1 THEN Str(abc) ELSE Num(-5)
WidePatterns == 1..4

\* few measure columns, and about as many as there are codes
WideColumnCounts == (0..2) \cup ((MaxValueCols - 2)..MaxValueCols)

\* the wide-form table of k measure columns whose rows are <<batch, pattern>>
WideTable(rows, k) ==
    Table(<<Column(Pick(rows, 1))>>,
          [c \in 1..k |-> Column([i \in 1..Len(rows) |-> WideCell(rows[i][2], c - 1)])])

batch1 == <<"b", "a", "t", "c", "h", "1">>
batch2 == <<"b", "a", "t", "c", "h", "2">>

\* the inputs of the repository's tests
TestStandard ==
    Table(<<Column(<<Str(batch1), Str(batch1), Str(batch1)>>),
            Column(<<Str(THC), Str(CBD), Str(CBN)>>)>>,
          <<Column(<<Num(20), Num(15), Num(2)>>)>>)
TestMultiple ==
    Table(<<Column(<<Str(batch1), Str(batch2), Str(batch1), Str(batch2)>>),
            Column(<<Str(THC), Str(THC), Str(CBD), Str(CBD)>>)>>,
          <<Column(<<Num(20), Num(18), Num(15), Num(12)>>)>>)
TestCDES ==
    Table(<<Column(<<Str(batch1)>>)>>,
          <<Column(<<Num(20)>>), Column(<<Num(15)>>), Column(<<Num(2)>>),
            Column(<<Num(1)>>)>>)

\* the argument of a parseDataView call
TabularInput(d) ==
    \/ \E rows \in SeqsFromTo(LongRows, 0, MaxRows) : d = LongTable(rows)
    \/ \E rows \in SeqsFromTo(OddRows, 0, MaxRows) : d = LongTable(rows)
    \/ \E bs \in SeqsFromTo(BatchCells, MaxRows + 1, MaxInterleave) :
           d = InterleavedLong(bs) \/ d = InterleavedWide(bs)
    \/ \E rows \in SeqsFromTo(BatchCells \X WidePatterns, 0, MaxWideRows) :
           \E k \in WideColumnCounts : d = WideTable(rows, k)
    \/ \E cells \in SeqsFromTo(RepeatedCells, MaxRepeats, MaxRepeats) :
           d = RepeatedLong(cells)
    \/ d \in ShapeTables
    \/ d \in {TestStandard, TestMultiple, TestCDES}

\* batch records
b123 == <<"b", "1", "2", "3">>
Identities ==
    {i @@ b @@ n @@ s :
        i \in Optional("id", {Str(<<>>), Str(b123), Num(0), Num(7), Arr(<<>>)}),
        b \in Optional("batchId", {Str(b1)}),
        n \in Optional("name", {Str(<<>>), Str(<<"X">>)}),
        s \in Optional("strain", {Str(<<"S">>)})}
Compounds ==
    {l @@ u @@ c @@ a @@ f :
        l \in Optional("thc", {Num(20), Num(0), Num(-5), Str(abc)}),
        u \in Optional("THC", {Num(7), Num(0)}),
        c \in Optional("cbd", {Num(15)}),
        a \in Optional("CBDA", {Num(3)}),
        f \in Optional("foo", {Num(9)})}
TestBatch ==
    [id |-> Str(<<"b", "a", "t", "c", "h", "1", "2", "3">>), name |-> Str(<<"X">>),
     thc |-> Num(20), cbd |-> Num(15), cbn |-> Num(2)]
BatchRecords ==
    {i @@ c : i \in Identities, c \in Compounds} \cup {TestBatch, Null, Undefined}
SomeRecords ==
    {[id |-> Str(b1), thc |-> Num(20), cbd |-> Num(15)],
     [id |-> Str(b1), thc |-> Num(18)],
     [batchId |-> Num(1), THC |-> Num(7), thc |-> Num(0)],
     NoProps, Null}
BatchArrays == {Arr(bs) : bs \in SeqsFromTo(SomeRecords, 0, MaxBatches)}

-----------------------------------------------------------------------------
(* The calls *)

Idle == /\ result = Undefined /\ profiles = Undefined /\ displayName = Undefined
        /\ analysis = Undefined

\* no call of the analyzer is made
NoAnalyzerCall ==
    /\ profile1 = Undefined /\ profile2 = Undefined
    /\ targetProfile = Undefined /\ allProfiles = Undefined
    /\ limit = Undefined /\ minSimilarity = Undefined
    /\ profileArg = Undefined

\* no cache variable is set and no function of reference.ts has been called
NoReferenceCall ==
    /\ cache = [terpeneColorsCache |-> Null, terpeneLibraryCache |-> Null,
                terpeneExtendedCache |-> Null, cannabinoidLibraryCache |-> Null]
    /\ callers = <<>> /\ fetches = <<>> /\ cleared = 0

Init ==
    /\ pc = "call"
    /\ Idle
    /\ name = Undefined
    /\ NoAnalyzerCall
    /\ NoReferenceCall
    /\ \/ op = "parseDataView" /\ TabularInput(data) /\ batches = Undefined
       \/ op = "parseBatchJSON" /\ data = Undefined /\ batches \in BatchRecords
       \/ op = "parseBatchesJSON" /\ data = Undefined /\ batches \in BatchArrays

ParseDataView ==
    /\ pc = "call" /\ op = "parseDataView"
    /\ result' = parseDataView(data)
    /\ pc' = "done"
    /\ UNCHANGED <<op, data, batches, profiles, name, displayName, analyzerVars,
                   referenceVars>>

ParseBatchJSON ==
    /\ pc = "call" /\ op = "parseBatchJSON"
    /\ profiles' = parseBatchJSON(batches)
    /\ pc' = "done"
    /\ UNCHANGED <<op, data, result, batches, name, displayName, analyzerVars,
                   referenceVars>>

ParseBatchesJSON ==
    /\ pc = "call" /\ op = "parseBatchesJSON"
    /\ profiles' = parseBatchesJSON(batches)
    /\ pc' = "done"
    /\ UNCHANGED <<op, data, result, batches, name, displayName, analyzerVars,
                   referenceVars>>

Next == ParseDataView \/ ParseBatchJSON \/ ParseBatchesJSON

Spec == Init /\ [][Next]_vars

-----------------------------------------------------------------------------
(* The name resolver on its own *)

MaxLabelLen == 4      \* length of the enumerated part of a label

LabelAlphabet == {"T", "H", "C", "t", " ", "%"}
LabelSuffixes == {<<>>, <<"-", "A">>, <<"_", "V">>, THC}
TestLabels == {thcPercent, <<"T", "H", "C", " ", "%">>, <<" ", " ", "c", "b", "d", " ", " ">>,
               Foo, <<"C", "B", "D", " ", "t", "o", "t", "a", "l">>}
\* the argument of a getCannabioidDisplayName call
Label(l) ==
    \/ \E c \in SeqsFromTo(LabelAlphabet, 0, MaxLabelLen) :
           \E x \in LabelSuffixes : l = Str(c \o x)
    \/ \E i \in 1..Len(STANDARD_CANNABINOIDS) : l = Str(STANDARD_CANNABINOIDS[i])
    \/ \E t \in TestLabels : l = Str(t)

InitResolver ==
    /\ pc = "call"
    /\ Idle
    /\ op = "getCannabioidDisplayName"
    /\ Label(name)
    /\ data = Undefined
    /\ batches = Undefined
    /\ NoAnalyzerCall
    /\ NoReferenceCall

GetCannabioidDisplayName ==
    /\ pc = "call" /\ op = "getCannabioidDisplayName"
    /\ displayName' = Str(getCannabioidDisplayName(name.str))
    /\ pc' = "done"
    /\ UNCHANGED <<op, data, result, batches, profiles, name, analyzerVars,
                   referenceVars>>

NextResolver == GetCannabioidDisplayName

SpecResolver == InitResolver /\ [][NextResolver]_vars

-----------------------------------------------------------------------------
(* The input and the output of a finished call, as the properties read them *)

Returned(f) == pc = "done" /\ op = f

Max(S) == CHOOSE x \in S : \A y \in S : y <= x
Lowest(S) == CHOOSE x \in S : \A y \in S : x <= y

\* the category and the value columns, none when the list is absent
CatCols == IF IsArr(Get(data, "categories")) THEN data.categories.arr ELSE <<>>
ValCols == IF IsArr(Get(data, "values")) THEN data.values.arr ELSE <<>>

\* the cells of column j (from 1), none when the column is missing or has no values
Cells(cols, j) ==
    IF j <= Len(cols) /\ IsArr(Get(cols[j], "values")) THEN cols[j].values.arr ELSE <<>>

\* the batch identifier of row r (from 1) and its raw cannabinoid label
BatchOfRow(r) == String(Cells(CatCols, 1)[r])
LabelOfRow(r) == String(Cells(CatCols, 2)[r])

\* the number in value column j (from 1) at row r; 0 when missing or not a number
Percent(j, r) ==
    LET cells == Cells(ValCols, j)
        n == IF r <= Len(cells) THEN Number(cells[r]) ELSE NaN
    IN IF IsNum(n) THEN n.num ELSE 0

\* the rows the returned attempt walked
RowsWalked ==
    IF result.parseMode = "standard"
    THEN 1..Min(Len(Cells(CatCols, 1)), Len(Cells(CatCols, 2)))
    ELSE IF result.parseMode = "cdes" THEN 1..Len(Cells(CatCols, 1))
    ELSE {}

Keys(p) == {p.cannabinoids[k].key : k \in 1..Len(p.cannabinoids)}
ValueOf(p, code) ==
    p.cannabinoids[CHOOSE k \in 1..Len(p.cannabinoids) : p.cannabinoids[k].key = code].value
SeqToSet(q) == {q[k] : k \in 1..Len(q)}

\* the sum of the values of a measurement mapping, taken from the front
RECURSIVE Total(_)
Total(m) == IF m = <<>> THEN 0 ELSE Head(m).value + Total(Tail(m))

\* every profile the finished call produced
Produced ==
    IF Returned("parseDataView") THEN SeqToSet(result.profiles)
    ELSE IF Returned("parseBatchJSON") /\ profiles # Threw THEN {profiles}
    ELSE IF Returned("parseBatchesJSON") /\ profiles # Threw THEN SeqToSet(profiles.arr)
    ELSE {}

LongYields ==
    /\ Len(CatCols) >= 2
    /\ Len(ValCols) >= 1
    /\ Len(parseStandardStructure(data).profiles) > 0

WideYields ==
    /\ Len(CatCols) >= 1
    /\ parseCDESStructure(data) # Threw
    /\ Len(parseCDESStructure(data).profiles) > 0

-----------------------------------------------------------------------------
(* Properties *)

C2_LongFormProfiles ==
    Returned("parseDataView") /\ result.parseMode = "standard" =>
        LET Rows(b, code) ==
                {r \in RowsWalked : /\ BatchOfRow(r) = b
                                    /\ getCannabioidDisplayName(LabelOfRow(r)) = code
                                    /\ Percent(1, r) > 0}
            Codes == {getCannabioidDisplayName(LabelOfRow(r)) : r \in RowsWalked}
        IN /\ {p.batchId : p \in Produced} = {BatchOfRow(r) : r \in RowsWalked}
           /\ Len(result.profiles) = Cardinality({BatchOfRow(r) : r \in RowsWalked})
           /\ \A p \in Produced :
                  /\ \A code \in Codes \cup Keys(p) :
                         code \in Keys(p) <=> Rows(p.batchId, code) # {}
                  /\ \A code \in Keys(p) :
                         \E r \in Rows(p.batchId, code) : ValueOf(p, code) = Percent(1, r)
           /\ data = TestStandard =>
                  /\ Len(result.profiles) = 1
                  /\ result.profiles[1].cannabinoids =
                         <<[key |-> THC, value |-> 20], [key |-> CBD, value |-> 15],
                           [key |-> CBN, value |-> 2]>>
                  /\ result.profiles[1].totalCannabinoids = 37

\* two batches, one of them with a stored code and with a row that stored nothing
C2_Witness ==
    /\ Returned("parseDataView") /\ result.parseMode = "standard"
    /\ Len(result.profiles) = 2
    /\ \E p \in Produced : Keys(p) # {}
    /\ \E r \in RowsWalked : Percent(1, r) <= 0

\* the order of the measure columns the claim gives
WideOrder == <<THC, CBD, CBN, CBG, CBC, THCV, CBDV, THCA, CBDA>>

\* C3 as stated: in a wide-form result, for every row r and every value column i
\* below min(number of value columns, 9), the profile of the batch of row r holds
\* code i of the fixed list with the value of column i at row r whenever that
\* value is > 0; no other key is produced.
C3_EveryRowValueStored ==
    Returned("parseDataView") /\ result.parseMode = "cdes" =>
        /\ \A r \in RowsWalked : \A i \in 1..Min(Len(ValCols), Len(WideOrder)) :
               Percent(i, r) > 0 =>
                   \E p \in Produced : /\ p.batchId = BatchOfRow(r)
                                        /\ WideOrder[i] \in Keys(p)
                                        /\ ValueOf(p, WideOrder[i]) = Percent(i, r)
        /\ \A p \in Produced : Keys(p) \subseteq SeqToSet(WideOrder)

\* C3 (amended): in a wide-form result the profile of a batch holds code i of the
\* fixed list [THC, CBD, CBN, CBG, CBC, THCV, CBDV, THCA, CBDA], for i below
\* min(number of value columns, 9), if and only if some row of that batch has a
\* value > 0 in column i, and then with the value of the last such row; columns
\* from index 9 on are ignored and no other key is produced; one row with the
\* columns [20,15,2,1] gives {THC:20, CBD:15, CBN:2, CBG:1}.
C3_WideFormLastRowStored ==
    Returned("parseDataView") /\ result.parseMode = "cdes" =>
        LET Rows(b, i) == {r \in RowsWalked : /\ BatchOfRow(r) = b
                                              /\ i <= Len(ValCols)
                                              /\ Percent(i, r) > 0}
        IN /\ \A p \in Produced :
                  /\ \A i \in 1..Len(WideOrder) :
                         /\ WideOrder[i] \in Keys(p) <=> Rows(p.batchId, i) # {}
                         /\ Rows(p.batchId, i) # {} =>
                                ValueOf(p, WideOrder[i]) = Percent(i, Max(Rows(p.batchId, i)))
                  /\ Keys(p) \subseteq SeqToSet(WideOrder)
           /\ \A r \in RowsWalked : \E p \in Produced : p.batchId = BatchOfRow(r)
           /\ data = TestCDES =>
                  result.profiles[1].cannabinoids =
                      <<[key |-> THC, value |-> 20], [key |-> CBD, value |-> 15],
                        [key |-> CBN, value |-> 2], [key |-> CBG, value |-> 1]>>

\* more than 9 value columns, all 9 codes stored, and a batch whose second row
\* replaced the value of its first
C3_Witness ==
    /\ Returned("parseDataView") /\ result.parseMode = "cdes"
    /\ Len(ValCols) > Len(WideOrder)
    /\ Percent(Len(WideOrder) + 1, 1) > 0
    /\ \E p \in Produced : Keys(p) = SeqToSet(WideOrder)
    /\ \E r1, r2 \in RowsWalked :
           /\ r1 < r2 /\ BatchOfRow(r1) = BatchOfRow(r2)
           /\ Percent(1, r1) > 0 /\ Percent(1, r2) > 0 /\ Percent(1, r1) # Percent(1, r2)

\* C4: the mode is "unknown" if and only if there are no profiles, and then
\* recordsProcessed is 0; an input without category columns and an input on which
\* neither attempt yields a profile produce exactly
\* { profiles: [], parseMode: "unknown", recordsProcessed: 0 }.
C4_UnknownIffEmpty ==
    Returned("parseDataView") =>
        LET Empty == [profiles |-> <<>>, parseMode |-> "unknown", recordsProcessed |-> 0]
        IN /\ result.parseMode = "unknown" <=> result.profiles = <<>>
           /\ result.parseMode = "unknown" => result.recordsProcessed = 0
           /\ Len(CatCols) = 0 => result = Empty
           /\ ~ LongYields /\ ~ WideYields => result = Empty

\* category and value columns are there, but no row to make a profile from
C4_Witness ==
    /\ Returned("parseDataView")
    /\ Len(CatCols) >= 2 /\ Len(ValCols) >= 1
    /\ Len(Cells(ValCols, 1)) > 0
    /\ result.parseMode = "unknown"

\* C5: every profile produced by parseDataView (either mode), parseBatchJSON or
\* parseBatchesJSON has a total equal to the sum of the values in its measurements.
C5_TotalIsSum ==
    \A p \in Produced : p.totalCannabinoids = Total(p.cannabinoids)

\* a long-form profile in which a later row replaced a stored value
C5_Witness ==
    /\ Returned("parseDataView") /\ result.parseMode = "standard"
    /\ \E p \in Produced : Len(p.cannabinoids) = 2 /\ p.totalCannabinoids > 0
    /\ \E r1, r2 \in RowsWalked :
           /\ r1 < r2 /\ BatchOfRow(r1) = BatchOfRow(r2)
           /\ getCannabioidDisplayName(LabelOfRow(r1)) = getCannabioidDisplayName(LabelOfRow(r2))
           /\ Percent(1, r1) > 0 /\ Percent(1, r2) > 0 /\ Percent(1, r1) # Percent(1, r2)

\* the values the input supplies for a code of a produced profile
Supplied(p, code) ==
    IF Returned("parseDataView") /\ result.parseMode = "standard"
    THEN {Percent(1, r) : r \in {x \in RowsWalked :
              BatchOfRow(x) = p.batchId /\ getCannabioidDisplayName(LabelOfRow(x)) = code}}
    ELSE IF Returned("parseDataView")
    THEN {Percent(i, r) : r \in {x \in RowsWalked : BatchOfRow(x) = p.batchId},
                          i \in {j \in 1..Min(Len(ValCols), Len(WideOrder)) :
                                    WideOrder[j] = code}}
    ELSE LET Of(rec) == {v.num : v \in {x \in {Get(rec, Key(toLowerCase(code))),
                                                 Get(rec, Key(code))} : IsNum(x)}}
         IN IF Returned("parseBatchJSON") THEN Of(batches)
            ELSE UNION {Of(batches.arr[k]) : k \in 1..Len(batches.arr)}

\* C6: every value stored in a produced profile is > 0 and is a value the input
\* supplies for that compound, so a compound whose supplied values are all 0,
\* negative, missing or not numbers has no key.
C6_StoredValuesPositive ==
    \A p \in Produced : \A code \in Keys(p) :
        /\ ValueOf(p, code) > 0
        /\ ValueOf(p, code) \in Supplied(p, code)

\* a record with a negative THC value and a positive CBD value: only CBD is stored
C6_Witness ==
    /\ Returned("parseBatchJSON") /\ profiles # Threw
    /\ Get(batches, "thc") = Num(-5) /\ Get(batches, "THC") = Undefined
    /\ Get(batches, "cbd") = Num(15)
    /\ Keys(profiles) = {CBD}

\* C7: no two profiles of a parseDataView result share a batchId, and the
\* profiles are in the order of the first rows of their batches.
C7_UniqueFirstSeenOrder ==
    Returned("parseDataView") =>
        LET First(b) == Lowest({r \in RowsWalked : BatchOfRow(r) = b})
            n == Len(result.profiles)
        IN /\ \A a, b \in 1..n :
                  a # b => result.profiles[a].batchId # result.profiles[b].batchId
           /\ \A a \in 1..n : \E r \in RowsWalked : BatchOfRow(r) = result.profiles[a].batchId
           /\ \A a, b \in 1..n :
                  a < b <=> First(result.profiles[a].batchId) < First(result.profiles[b].batchId)

\* the first batch comes back after the second one was seen
C7_Witness ==
    /\ Returned("parseDataView")
    /\ Len(result.profiles) = 2
    /\ \E r1, r2, r3 \in RowsWalked :
           /\ r1 < r2 /\ r2 < r3
           /\ BatchOfRow(r1) = BatchOfRow(r3) /\ BatchOfRow(r1) # BatchOfRow(r2)
           /\ Cells(CatCols, 1)[r1] # Cells(CatCols, 1)[r3]

\* C8: recordsProcessed is the number of rows the returned attempt iterated - in
\* long mode the rows present in both of the first two category columns, in wide
\* mode the rows of category column 0 - rows that stored nothing included, and is
\* never smaller than the number of profiles.
C8_RecordsProcessedCountsRows ==
    Returned("parseDataView") =>
        /\ result.parseMode = "standard" =>
               result.recordsProcessed =
                   Min(Len(Cells(CatCols, 1)), Len(Cells(CatCols, 2)))
        /\ result.parseMode = "cdes" => result.recordsProcessed = Len(Cells(CatCols, 1))
        /\ result.recordsProcessed >= Len(result.profiles)

\* a long-form result over columns of different lengths with a row that stored nothing
C8_Witness ==
    /\ Returned("parseDataView") /\ result.parseMode = "standard"
    /\ Len(Cells(CatCols, 1)) < Len(Cells(CatCols, 2))
    /\ result.recordsProcessed = 2
    /\ Len(result.profiles) = 2
    /\ \E r \in RowsWalked : Percent(1, r) <= 0

\* the registry order and the characters the claim says are removed
RegistryOrder == <<THC, CBD, CBN, CBG, CBC, THCV, CBDV, CBDA, THCA>>
Removed == WhiteSpace \cup {"-", "_", "%"}

\* the raw label upper-cased, without the removed characters, cut to 5 characters
Normalized(raw) ==
    LET kept == SelectSeq(raw, LAMBDA c : c \notin Removed)
    IN [i \in 1..Min(5, Len(kept)) |-> toUpperCaseChar(kept[i])]

IsSubstring(a, b) ==
    \E i \in 1..(Len(b) + 1) : \E j \in (i - 1)..Len(b) : SubSeq(b, i, j) = a

Matching(raw) ==
    {i \in 1..Len(RegistryOrder) :
        \/ IsSubstring(RegistryOrder[i], Normalized(raw))
        \/ IsSubstring(Normalized(raw), RegistryOrder[i])}

\* C9: the resolver returns the first code K, in the order THC, CBD, CBN, CBG,
\* CBC, THCV, CBDV, CBDA, THCA, that is a substring of the normalized label or has
\* the normalized label as a substring, and the raw label itself when there is
\* none; "thc %" and "THC %" resolve to THC, "  cbd  " to CBD.
C9_FirstMatchOrRaw ==
    Returned("getCannabioidDisplayName") =>
        /\ displayName = Str(IF Matching(name.str) = {} THEN name.str
                             ELSE RegistryOrder[Lowest(Matching(name.str))])
        /\ name.str \in {thcPercent, <<"T", "H", "C", " ", "%">>} => displayName = Str(THC)
        /\ name.str = <<" ", " ", "c", "b", "d", " ", " ">> => displayName = Str(CBD)

\* a label of more than 5 kept characters that no code matches comes back raw
C9_Witness ==
    /\ Returned("getCannabioidDisplayName")
    /\ Len(SelectSeq(name.str, LAMBDA c : c \notin Removed)) > 5
    /\ name.str # toUpperCase(name.str)
    /\ displayName = name

\* C10: for each of the 9 registry codes K, resolving the label K returns K.
C10_CodeResolvesToItself ==
    Returned("getCannabioidDisplayName") /\ name.str \in SeqToSet(RegistryOrder) =>
        displayName = name

-----------------------------------------------------------------------------
(* The record parser *)

\* the values that || skips
Falsy == {Undefined, Null, NaN, Num(0), Str(<<>>)}

\* C11: parseBatchJSON sets batchId to the record's id field when that field is
\* present and non-empty, otherwise to its batchId field when present and
\* non-empty, otherwise to "unknown"; the batchId is a string and never empty.
C11_BatchIdFallback ==
    Returned("parseBatchJSON") /\ profiles # Threw =>
        LET Given(f) == Get(batches, f) \notin {Undefined, Null, Str(<<>>)}
        IN /\ profiles.batchId =
                  IF Given("id") THEN String(batches.id)
                  ELSE IF Given("batchId") THEN String(batches.batchId)
                  ELSE unknown
           /\ profiles.batchId # <<>>

\* C12 as stated: batchName is the name field whenever the record has one,
\* otherwise the strain field when the record has one, otherwise the batchId.
C12_NameWheneverPresent ==
    Returned("parseBatchJSON") /\ profiles # Threw =>
        profiles.batchName =
            IF "name" \in DOMAIN batches THEN String(batches.name)
            ELSE IF "strain" \in DOMAIN batches THEN String(batches.strain)
            ELSE profiles.batchId

\* C12: batchName is the name field when the record has one that is not empty
\* (nor 0 nor null), otherwise the strain field under the same condition,
\* otherwise the batchId computed for the same record.
C12_NameWhenNotEmpty ==
    Returned("parseBatchJSON") /\ profiles # Threw =>
        profiles.batchName =
            IF Get(batches, "name") \notin Falsy THEN String(batches.name)
            ELSE IF Get(batches, "strain") \notin Falsy THEN String(batches.strain)
            ELSE profiles.batchId

\* an empty name gives way to the strain
C12_Witness ==
    /\ Returned("parseBatchJSON") /\ profiles # Threw
    /\ Get(batches, "name") = Str(<<>>)
    /\ Get(batches, "strain") = Str(<<"S">>)
    /\ profiles.batchName = <<"S">>

\* what a record-parsed profile holds for every one of the nine codes, given
\* the value the lookup of a code resolves to
StoresResolved(Resolved(_)) ==
    /\ \A code \in SeqToSet(RegistryOrder) :
           /\ code \in Keys(profiles) <=>
                  IsNum(Resolved(code)) /\ Resolved(code).num > 0
           /\ code \in Keys(profiles) => ValueOf(profiles, code) = Resolved(code).num
    /\ Keys(profiles) \subseteq SeqToSet(RegistryOrder)

\* C13 as stated: the value of a code is resolved from the lower-cased key when
\* the record has that key and otherwise from the exact-case key, the code is
\* stored iff that value is a number > 0, and no other key is ever stored.
C13_LowerKeyWhenPresent ==
    Returned("parseBatchJSON") /\ profiles # Threw =>
        LET Resolved(code) ==
                IF Key(toLowerCase(code)) \in DOMAIN batches
                THEN batches[Key(toLowerCase(code))]
                ELSE Get(batches, Key(code))
        IN StoresResolved(Resolved)

\* C13: the value of a code is resolved from the lower-cased key unless the
\* record lacks it or holds 0, "", null or NaN there, and then from the
\* exact-case key; the code is stored iff the resolved value is a number > 0,
\* and no key other than the nine codes is ever stored.
C13_LowerKeyWhenTruthy ==
    Returned("parseBatchJSON") /\ profiles # Threw =>
        LET Resolved(code) ==
                IF Get(batches, Key(toLowerCase(code))) \notin Falsy
                THEN batches[Key(toLowerCase(code))]
                ELSE Get(batches, Key(code))
        IN StoresResolved(Resolved)

\* a record with thc 0 and THC 7 stores 7, next to an unknown key that is ignored
C13_Witness ==
    /\ Returned("parseBatchJSON") /\ profiles # Threw
    /\ Get(batches, "thc") = Num(0) /\ Get(batches, "THC") = Num(7)
    /\ Get(batches, "foo") = Num(9)
    /\ Keys(profiles) = {THC} /\ ValueOf(profiles, THC) = 7

\* C14: parseBatchesJSON returns, in the order of the input, one profile per
\* record, the i-th being parseBatchJSON of the i-th record whatever the other
\* records are (records with the same id are not merged); it raises exactly
\* when parseBatchJSON raises on one of the elements.
C14_PerElementTransform ==
    Returned("parseBatchesJSON") =>
        IF \E k \in 1..Len(batches.arr) : parseBatchJSON(batches.arr[k]) = Threw
        THEN profiles = Threw
        ELSE /\ profiles # Threw
             /\ Len(profiles.arr) = Len(batches.arr)
             /\ \A k \in 1..Len(batches.arr) :
                    profiles.arr[k] = parseBatchJSON(batches.arr[k])

\* two records with the same id give two profiles
C14_Witness ==
    /\ Returned("parseBatchesJSON") /\ profiles # Threw
    /\ Len(profiles.arr) = 2
    /\ profiles.arr[1].batchId = b1 /\ profiles.arr[2].batchId = b1
    /\ profiles.arr[1].cannabinoids # profiles.arr[2].cannabinoids

-----------------------------------------------------------------------------
(* calculateEuclideanDistance (cannabinoids.ts) and analyzer.ts            *)
(*                                                                         *)
(* The percentages are integers.  A distance or a similarity has a         *)
(* fractional part: both are kept in thousandths, rounded down by sqrt and *)
(* by the division (6.928 is 6928).                                        *)

Thousandths(n) == 1000 * n

\* map.get(key) || 0
GetOr0(m, key) == IF MapHas(m, key) /\ MapGet(m, key) # 0 THEN MapGet(m, key) ELSE 0

\* new Set([...profile1.keys(), ...profile2.keys()]), in iteration order
allKeys(m1, m2) ==
    [i \in 1..Len(m1) |-> m1[i].key]
        \o SelectSeq([i \in 1..Len(m2) |-> m2[i].key], LAMBDA k : ~ MapHas(m1, k))

\* the largest r in lo..hi with r * r <= n
RECURSIVE Root(_, _, _)
Root(n, lo, hi) ==
    IF lo = hi THEN lo
    ELSE LET mid == (lo + hi + 1) \div 2
         IN IF mid * mid <= n THEN Root(n, mid, hi) ELSE Root(n, lo, mid - 1)

\* Math.sqrt of an integer, in thousandths
sqrt(n) == Root(Thousandths(Thousandths(n)), 0, 46340)

\* fault: only the keys of the first map are walked
calculateEuclideanDistanceFirstKeys(m1, m2) ==
    LET keys == [i \in 1..Len(m1) |-> m1[i].key]
        SumSquares[i \in 0..Len(keys)] ==
            IF i = 0 THEN 0
            ELSE SumSquares[i - 1]
                     + (GetOr0(m1, keys[i]) - GetOr0(m2, keys[i]))
                           * (GetOr0(m1, keys[i]) - GetOr0(m2, keys[i]))
    IN sqrt(SumSquares[Len(keys)])

calculateEuclideanDistance(m1, m2) ==
    LET keys == allKeys(m1, m2)
        \* sumSquares after the first i keys
        SumSquares[i \in 0..Len(keys)] ==
            IF i = 0 THEN 0
            ELSE LET val1 == GetOr0(m1, keys[i])
                     val2 == GetOr0(m2, keys[i])
                 IN SumSquares[i - 1] + (val1 - val2) * (val1 - val2)
    IN sqrt(SumSquares[Len(keys)])

\* the series 1 + x + x^2/2 + ... of e^x from the term of number k on, the
\* terms and x in ten-thousandths
RECURSIVE Series(_, _, _)
Series(term, k, x) ==
    IF term = 0 THEN 0
    ELSE term + Series((term * x) \div (10000 * k), k + 1, x)

\* Math.exp(x) for x <= 0 in ten-thousandths, the result in hundred-thousandths
exp(x) == 1000000000 \div Series(10000, 1, -x)

\* fault: the exponent has the sign of the distance
similarityGrowing(distance) ==
    Max({0, Min(Thousandths(100), 10 * Series(10000, 1, distance))})

\* Math.max(0, Math.min(100, 100 * Math.exp(-distance / 10))): distance / 10 in
\* ten-thousandths is the distance in thousandths
similarity(distance) ==
    Max({0, Min(Thousandths(100), (100 * exp(-distance)) \div 100)})

\* fault: a key is recorded also when the two values are equal
RECURSIVE DifferencesLoopKeepingEqual(_, _, _, _, _)
DifferencesLoopKeepingEqual(differences, keys, i, p1, p2) ==
    IF i > Len(keys) THEN differences
    ELSE LET val1 == GetOr0(p1.cannabinoids, keys[i])
             val2 == GetOr0(p2.cannabinoids, keys[i])
         IN DifferencesLoopKeepingEqual(
                MapSet(differences, keys[i],
                       [val1 |-> val1, val2 |-> val2, delta |-> val2 - val1]),
                keys, i + 1, p1, p2)

\* the loop of compareProfiles over allKeys, from key number i on
RECURSIVE DifferencesLoop(_, _, _, _, _)
DifferencesLoop(differences, keys, i, p1, p2) ==
    IF i > Len(keys) THEN differences
    ELSE LET val1 == GetOr0(p1.cannabinoids, keys[i])
             val2 == GetOr0(p2.cannabinoids, keys[i])
         IN DifferencesLoop(
                IF val1 # val2
                THEN MapSet(differences, keys[i],
                            [val1 |-> val1, val2 |-> val2, delta |-> val2 - val1])
                ELSE differences,
                keys, i + 1, p1, p2)

compareProfiles(p1, p2) ==
    LET distance == calculateEuclideanDistance(p1.cannabinoids, p2.cannabinoids)
    IN [profile1 |-> p1,
        profile2 |-> p2,
        distance |-> distance,
        similarity |-> similarity(distance),
        differences |-> DifferencesLoop(<<>>, allKeys(p1.cannabinoids, p2.cannabinoids),
                                        1, p1, p2)]

\* fault: an element goes before the elements it compares equal to
RECURSIVE sortUnstable(_)
sortUnstable(results) ==
    IF results = <<>> THEN <<>>
    ELSE LET last == results[Len(results)]
             front == sortUnstable(SubSeq(results, 1, Len(results) - 1))
             before == SelectSeq(front, LAMBDA a : last.similarity - a.similarity < 0)
             after == SelectSeq(front, LAMBDA a : ~ (last.similarity - a.similarity < 0))
         IN before \o <<last>> \o after

\* results.sort((a, b) => b.similarity - a.similarity); the sort is stable: an
\* element goes behind the elements it does not have to precede
RECURSIVE sort(_)
sort(results) ==
    IF results = <<>> THEN <<>>
    ELSE LET last == results[Len(results)]
             front == sort(SubSeq(results, 1, Len(results) - 1))
             before == SelectSeq(front, LAMBDA a : last.similarity - a.similarity <= 0)
             after == SelectSeq(front, LAMBDA a : ~ (last.similarity - a.similarity <= 0))
         IN before \o <<last>> \o after

\* results.slice(0, end); a negative end counts from the end of the array
slice(results, end) ==
    SubSeq(results, 1, IF end < 0 THEN Max({Len(results) + end, 0})
                       ELSE Min(end, Len(results)))

\* fault: a candidate with the batchId of the target is kept
findSimilarProfilesKeepingSelf(target, candidates, lim, minSim) ==
    LET l == IF lim = Undefined THEN 5 ELSE lim.num
        m == IF minSim = Undefined THEN 50 ELSE minSim.num
        scored == [i \in 1..Length(candidates) |->
                    LET d == calculateEuclideanDistance(target.cannabinoids,
                                                        At(candidates, i - 1).cannabinoids)
                    IN [profile |-> At(candidates, i - 1), distance |-> d,
                        similarity |-> similarity(d)]]
        cut == slice(sort(SelectSeq(scored,
                   LAMBDA r : r.similarity >= Thousandths(m))), l)
    IN Arr([index \in 1..Len(cut) |->
               [profile |-> cut[index].profile, distance |-> cut[index].distance,
                similarity |-> cut[index].similarity, rank |-> index]])

\* fault: the candidates are cut to the limit before they are sorted
findSimilarProfilesCutFirst(target, candidates, lim, minSim) ==
    LET l == IF lim = Undefined THEN 5 ELSE lim.num
        m == IF minSim = Undefined THEN 50 ELSE minSim.num
        scored == [i \in 1..Length(candidates) |->
                    LET d == calculateEuclideanDistance(target.cannabinoids,
                                                        At(candidates, i - 1).cannabinoids)
                    IN [profile |-> At(candidates, i - 1), distance |-> d,
                        similarity |-> similarity(d)]]
        cut == sort(slice(SelectSeq(scored,
                   LAMBDA r : /\ r.similarity >= Thousandths(m)
                              /\ r.profile.batchId # target.batchId), l))
    IN Arr([index \in 1..Len(cut) |->
               [profile |-> cut[index].profile, distance |-> cut[index].distance,
                similarity |-> cut[index].similarity, rank |-> index]])

\* fault: the array of the caller is sorted, before the results are drawn from it
findSimilarArraysSortingInPlace(target, candidates, lim, minSim) ==
    LET l == IF lim = Undefined THEN 5 ELSE lim.num
        m == IF minSim = Undefined THEN 50 ELSE minSim.num
        mapped == [i \in 1..Length(candidates) |->
                    LET d == calculateEuclideanDistance(target.cannabinoids,
                                                        At(candidates, i - 1).cannabinoids)
                    IN [profile |-> At(candidates, i - 1), distance |-> d,
                        similarity |-> similarity(d)]]
        sorted == sort(mapped)
        results == slice(SelectSeq(sorted,
                       LAMBDA r : /\ r.similarity >= Thousandths(m)
                                  /\ r.profile.batchId # target.batchId), l)
    IN [allProfiles |-> [i \in 1..Len(sorted) |-> sorted[i].profile],
        returned |-> [index \in 1..Len(results) |->
                         [profile |-> results[index].profile,
                          distance |-> results[index].distance,
                          similarity |-> results[index].similarity,
                          rank |-> index]]]

\* The arrays of findSimilarProfiles after the call: allProfiles, the array the
\* caller passes, and the array returned.  map, filter and slice each make a new
\* array and sort reorders the array it is called on, which is the one filter
\* made; nothing is written to allProfiles or to a profile.  limit and
\* minSimilarity are undefined when the caller omits them.
findSimilarArrays(target, candidates, lim, minSim) ==
    LET l == IF lim = Undefined THEN 5 ELSE lim.num
        m == IF minSim = Undefined THEN 50 ELSE minSim.num
        mapped == [i \in 1..Length(candidates) |->
                    LET profile == At(candidates, i - 1)
                        distance == calculateEuclideanDistance(target.cannabinoids,
                                                               profile.cannabinoids)
                    IN [profile |-> profile, distance |-> distance,
                        similarity |-> similarity(distance)]]
        filtered == SelectSeq(mapped,
                        LAMBDA r : /\ r.similarity >= Thousandths(m)
                                   /\ r.profile.batchId # target.batchId)
        results == slice(sort(filtered), l)
    IN [allProfiles |-> candidates.arr,
        returned |-> [index \in 1..Len(results) |->
                         [profile |-> results[index].profile,
                          distance |-> results[index].distance,
                          similarity |-> results[index].similarity,
                          rank |-> index]]]

findSimilarProfiles(target, candidates, lim, minSim) ==
    Arr(findSimilarArrays(target, candidates, lim, minSim).returned)

\* fault: the score is not capped at 100
scoreProfileCompletenessUncapped(p) ==
    LET detectedCount == Len(p.cannabinoids)
        maxCannabinoids == 9
        coverage == (Thousandths(detectedCount) * 100) \div maxCannabinoids
        score == coverage + (IF detectedCount >= 7 THEN Thousandths(20) ELSE 0)
                          + (IF p.totalCannabinoids > 10 THEN Thousandths(10) ELSE 0)
    IN [score |-> score,
        coverage |-> coverage,
        message |-> IF coverage < Thousandths(30)
                    THEN "Incomplete profile - limited cannabinoid data"
                    ELSE IF coverage < Thousandths(60)
                    THEN "Partial profile - some cannabinoid data"
                    ELSE IF coverage < Thousandths(90)
                    THEN "Good profile - most cannabinoids detected"
                    ELSE "Complete profile - all major cannabinoids detected"]

\* The score and the coverage are in thousandths, rounded down: the coverage
\* (detectedCount / maxCannabinoids) * 100 is divided last.
scoreProfileCompleteness(p) ==
    LET detectedCount == Len(p.cannabinoids)
        maxCannabinoids == 9
        coverage == (Thousandths(detectedCount) * 100) \div maxCannabinoids
        bonus == (IF detectedCount >= 7 THEN Thousandths(20) ELSE 0)
                     + (IF p.totalCannabinoids > 10 THEN Thousandths(10) ELSE 0)
        score == Min(Thousandths(100), coverage + bonus)
    IN [score |-> score,
        coverage |-> coverage,
        message |-> IF coverage < Thousandths(30)
                    THEN "Incomplete profile - limited cannabinoid data"
                    ELSE IF coverage < Thousandths(60)
                    THEN "Partial profile - some cannabinoid data"
                    ELSE IF coverage < Thousandths(90)
                    THEN "Good profile - most cannabinoids detected"
                    ELSE "Complete profile - all major cannabinoids detected"]

\* (n / d).toFixed(1) for integers n >= 0 and d > 0: the nearest tenth, the larger
\* one of two tenths equally near.  This is the digit string JavaScript gives
\* unless n / d is an odd multiple of 1/20 that no double holds exactly.
toFixed(n, d) ==
    LET tenths == (20 * n + d) \div (2 * d)
    IN NatToString(tenths \div 10) \o <<".">> \o NatToString(tenths % 10)

\* thc > 20, > 10, > 0.5 and cbd > 15, > 7, > 0.5
Content(value, high, moderate) ==
    IF value > high THEN "High"
    ELSE IF value > moderate THEN "Moderate"
    ELSE IF 2 * value > 1 THEN "Low"
    ELSE "Trace"

ratio(thc, cbd) ==
    IF thc > 0 /\ cbd > 0
    THEN LET ratioParts == toFixed(Max({thc, cbd}), Min(thc, cbd))
         IN IF thc > cbd
            THEN ratioParts \o <<":", "1", " ", "T", "H", "C", ":", "C", "B", "D">>
            ELSE ratioParts \o <<":", "1", " ", "C", "B", "D", ":", "T", "H", "C">>
    ELSE IF thc > 0 THEN toFixed(thc, 1) \o <<"%", " ", "T", "H", "C">>
    ELSE IF cbd > 0 THEN toFixed(cbd, 1) \o <<"%", " ", "C", "B", "D">>
    ELSE <<"N", "/", "A">>

\* fault: the comparisons with the double are not strict
classifyStrainInclusive(p) ==
    LET thc == GetOr0(p.cannabinoids, THC)
        cbd == GetOr0(p.cannabinoids, CBD)
    IN [type |-> IF thc >= cbd * 2 THEN "THC-Dominant"
                 ELSE IF cbd >= thc * 2 THEN "CBD-Dominant"
                 ELSE IF thc > 0 \/ cbd > 0 THEN "Balanced"
                 ELSE "Unknown",
        thcContent |-> Content(thc, 20, 10),
        cbdContent |-> Content(cbd, 15, 7),
        ratio |-> Str(ratio(thc, cbd))]

\* fault: the larger of the two dominates, whatever the proportion
classifyStrainLarger(p) ==
    LET thc == GetOr0(p.cannabinoids, THC)
        cbd == GetOr0(p.cannabinoids, CBD)
    IN [type |-> IF thc > cbd THEN "THC-Dominant"
                 ELSE IF cbd > thc THEN "CBD-Dominant"
                 ELSE IF thc > 0 \/ cbd > 0 THEN "Balanced"
                 ELSE "Unknown",
        thcContent |-> Content(thc, 20, 10),
        cbdContent |-> Content(cbd, 15, 7),
        ratio |-> Str(ratio(thc, cbd))]

classifyStrain(p) ==
    LET thc == GetOr0(p.cannabinoids, THC)
        cbd == GetOr0(p.cannabinoids, CBD)
    IN [type |-> IF thc > cbd * 2 THEN "THC-Dominant"
                 ELSE IF cbd > thc * 2 THEN "CBD-Dominant"
                 ELSE IF thc > 0 \/ cbd > 0 THEN "Balanced"
                 ELSE "Unknown",
        thcContent |-> Content(thc, 20, 10),
        cbdContent |-> Content(cbd, 15, 7),
        ratio |-> Str(ratio(thc, cbd))]

-----------------------------------------------------------------------------
(* The calls of the analyzer *)

MaxCandidates == 3    \* length of the enumerated candidate lists
MaxLimit == 2         \* largest limit passed with them

Entry(k, v) == [key |-> k, value |-> v]

\* the measurements of profile1 of the analyzer tests, and maps around them:
\* at squared distance 0, 3, 4, 29 (twice), 48, 49, 429 and 629 from them
Measured == <<Entry(THC, 20), Entry(CBD, 15), Entry(CBN, 2)>>
WithZero == <<Entry(THC, 20), Entry(CBD, 15), Entry(CBN, 2), Entry(CBG, 0)>>
Near == <<Entry(THC, 21), Entry(CBD, 14), Entry(CBN, 3)>>
Reordered == <<Entry(CBD, 15), Entry(THC, 20)>>
LessCBD == <<Entry(THC, 20), Entry(CBD, 10)>>
LessBoth == <<Entry(THC, 16), Entry(CBD, 12)>>
JustIn == <<Entry(THC, 16), Entry(CBD, 11), Entry(CBN, 6)>>
JustOut == <<Entry(THC, 13), Entry(CBD, 15), Entry(CBN, 2)>>
Far == <<Entry(CBD, 20)>>
Maps == {Measured, WithZero, Near, Reordered, LessCBD, LessBoth, JustIn, JustOut,
         Far, <<>>}

Profile(id, m) ==
    [batchId |-> id, batchName |-> id, cannabinoids |-> m,
     totalCannabinoids |-> SumValues(m)]

Target == Profile(batch1, Measured)
\* the candidates of the enumerated lists: the target itself, another profile
\* under its batchId, and four profiles of other batches
Candidates ==
    {Target, Profile(batch1, LessCBD), Profile(batch2, Near), Profile(<<"b", "3">>, LessCBD),
     Profile(<<"b", "4">>, LessBoth), Profile(<<"b", "6">>, JustOut)}
\* a list with six candidates of other batches at 50 % or more
ManyCandidates ==
    <<Profile(<<"b", "7">>, Far), Profile(<<"b", "3">>, LessCBD), Target,
      Profile(<<"b", "5">>, JustIn), Profile(<<"b", "4">>, LessBoth), Profile(batch2, Near),
      Profile(<<"b", "6">>, JustOut), Profile(<<"b", "8">>, Measured),
      Profile(batch1, LessCBD), Profile(<<"b", "9">>, Reordered), Profile(<<"b", "0">>, <<>>)>>
\* the test of findSimilarProfiles, with CBN 3 for its 2.5
TestCandidates == <<Target, Profile(batch2, Near)>>

Limits == {Undefined} \cup {Num(n) : n \in 0..MaxLimit}

MaxExtraKeys == 8     \* keys of a classified or scored profile besides THC and CBD

ExtraKeys == <<CBN, CBG, CBC, THCV, CBDV, CBDA, THCA, Foo, abc, b1>>
\* the THC and the CBD entry of a classified or scored profile, none when absent
THCEntries == {<<>>} \cup {<<Entry(THC, v)>> : v \in {-5, 0, 1, 10, 20, 21, 40}}
CBDEntries == {<<>>} \cup {<<Entry(CBD, v)>> : v \in {0, 5, 10, 15, 16, 40}}
\* the argument of a classifyStrain or scoreProfileCompleteness call
Analyzed(p) ==
    \E thc \in THCEntries, cbd \in CBDEntries, n \in 0..MaxExtraKeys :
        p = Profile(batch1, thc \o cbd \o [i \in 1..n |-> Entry(ExtraKeys[i], 1)])

InitAnalyzer ==
    /\ pc = "call"
    /\ Idle
    /\ data = Undefined /\ batches = Undefined /\ name = Undefined
    /\ NoReferenceCall
    /\ \/ /\ op \in {"classifyStrain", "scoreProfileCompleteness"}
          /\ Analyzed(profileArg)
          /\ profile1 = Undefined /\ profile2 = Undefined
          /\ targetProfile = Undefined /\ allProfiles = Undefined
          /\ limit = Undefined /\ minSimilarity = Undefined
       \/ /\ op = "calculateEuclideanDistance"
          /\ profileArg = Undefined
          /\ profile1 \in Maps /\ profile2 \in Maps
          /\ targetProfile = Undefined /\ allProfiles = Undefined
          /\ limit = Undefined /\ minSimilarity = Undefined
       \/ /\ op = "compareProfiles"
          /\ profileArg = Undefined
          /\ \E m1, m2 \in Maps :
                 profile1 = Profile(batch1, m1) /\ profile2 = Profile(batch2, m2)
          /\ targetProfile = Undefined /\ allProfiles = Undefined
          /\ limit = Undefined /\ minSimilarity = Undefined
       \/ /\ op = "findSimilarProfiles"
          /\ profileArg = Undefined
          /\ profile1 = Undefined /\ profile2 = Undefined
          /\ \/ /\ targetProfile = Target
                /\ \E c \in SeqsFromTo(Candidates, 0, MaxCandidates) : allProfiles = Arr(c)
                /\ limit \in Limits
                /\ minSimilarity \in {Undefined, Num(0)}
             \/ /\ targetProfile \in {Target, Profile(<<"b", "3">>, LessCBD)}
                /\ allProfiles \in {Arr(ManyCandidates), Arr(TestCandidates)}
                /\ limit \in Limits \cup {Num(5), Num(20)}
                /\ minSimilarity \in {Undefined, Num(0), Num(50), Num(90), Num(100)}

CalculateEuclideanDistance ==
    /\ pc = "call" /\ op = "calculateEuclideanDistance"
    /\ analysis' = calculateEuclideanDistance(profile1, profile2)
    /\ pc' = "done"
    /\ UNCHANGED <<op, data, result, batches, profiles, name, displayName, profile1,
                   profile2, targetProfile, allProfiles, limit, minSimilarity, profileArg,
                   referenceVars>>

CompareProfiles ==
    /\ pc = "call" /\ op = "compareProfiles"
    /\ analysis' = compareProfiles(profile1, profile2)
    /\ pc' = "done"
    /\ UNCHANGED <<op, data, result, batches, profiles, name, displayName, profile1,
                   profile2, targetProfile, allProfiles, limit, minSimilarity, profileArg,
                   referenceVars>>

FindSimilarProfiles ==
    /\ pc = "call" /\ op = "findSimilarProfiles"
    /\ analysis' = findSimilarProfiles(targetProfile, allProfiles, limit, minSimilarity)
    /\ allProfiles' = Arr(findSimilarArrays(targetProfile, allProfiles, limit,
                                            minSimilarity).allProfiles)
    /\ pc' = "done"
    /\ UNCHANGED <<op, data, result, batches, profiles, name, displayName, profile1,
                   profile2, targetProfile, limit, minSimilarity, profileArg,
                   referenceVars>>

ScoreProfileCompleteness ==
    /\ pc = "call" /\ op = "scoreProfileCompleteness"
    /\ analysis' = scoreProfileCompleteness(profileArg)
    /\ pc' = "done"
    /\ UNCHANGED <<op, data, result, batches, profiles, name, displayName, profile1,
                   profile2, targetProfile, allProfiles, limit, minSimilarity, profileArg,
                   referenceVars>>

ClassifyStrain ==
    /\ pc = "call" /\ op = "classifyStrain"
    /\ analysis' = classifyStrain(profileArg)
    /\ pc' = "done"
    /\ UNCHANGED <<op, data, result, batches, profiles, name, displayName, profile1,
                   profile2, targetProfile, allProfiles, limit, minSimilarity, profileArg,
                   referenceVars>>

NextAnalyzer ==
    \/ CalculateEuclideanDistance
    \/ CompareProfiles
    \/ FindSimilarProfiles
    \/ ScoreProfileCompleteness
    \/ ClassifyStrain

SpecAnalyzer == InitAnalyzer /\ [][NextAnalyzer]_vars

-----------------------------------------------------------------------------
(* The distance, the comparison and the ranking *)

\* the value a measurement mapping gives to a key, 0 when the key is absent
ValueAt(m, k) == IF \E i \in 1..Len(m) : m[i].key = k
                 THEN m[CHOOSE i \in 1..Len(m) : m[i].key = k].value
                 ELSE 0

KeyUnion(a, b) == MapKeys(a) \cup MapKeys(b)

\* the sum over a set of keys of the squared differences of two mappings
RECURSIVE SquaredDifferences(_, _, _)
SquaredDifferences(keys, a, b) ==
    IF keys = {} THEN 0
    ELSE LET k == CHOOSE x \in keys : TRUE
         IN (ValueAt(a, k) - ValueAt(b, k)) * (ValueAt(a, k) - ValueAt(b, k))
                + SquaredDifferences(keys \ {k}, a, b)

\* C15: the distance is symmetric, 0 from a mapping to itself, and 0 exactly when
\* the two mappings give the same value to every key of their key union (an
\* absent key counting as 0); its square is the sum over the key union of the
\* squared differences (the distance, in thousandths, is the root rounded down).
C15_SymmetricZeroOnEqual ==
    Returned("calculateEuclideanDistance") =>
        LET squares == SquaredDifferences(KeyUnion(profile1, profile2), profile1, profile2)
        IN /\ analysis = calculateEuclideanDistance(profile2, profile1)
           /\ calculateEuclideanDistance(profile1, profile1) = 0
           /\ analysis = 0 <=>
                  \A k \in KeyUnion(profile1, profile2) :
                      ValueAt(profile1, k) = ValueAt(profile2, k)
           /\ analysis * analysis <= 1000000 * squares
           /\ 1000000 * squares < (analysis + 1) * (analysis + 1)

\* two mappings with different keys at distance 0: one holds a 0 the other lacks
C15_Witness ==
    /\ Returned("calculateEuclideanDistance")
    /\ MapKeys(profile2) = MapKeys(profile1) \cup {CBG}
    /\ CBG \notin MapKeys(profile1)
    /\ analysis = 0

\* the entries of a findSimilarProfiles result
Ranked == SeqToSet(analysis.arr)

\* C16: the similarity of compareProfiles and findSimilarProfiles is
\* 100 * e^(-distance/10) within [0, 100]: 100 at distance 0, not larger at a
\* larger distance, at least 50 exactly up to the distance 10 ln 2 = 6.931 and at
\* least 10 exactly up to 10 ln 10 = 23.025.
C16_SimilarityDecays ==
    LET Decays(r) ==
            /\ r.similarity >= 0 /\ r.similarity <= Thousandths(100)
            /\ r.distance = 0 => r.similarity = Thousandths(100)
            /\ r.similarity >= Thousandths(50) <=> r.distance <= 6931
            /\ r.similarity >= Thousandths(10) <=> r.distance <= 23025
    IN /\ Returned("compareProfiles") => Decays(analysis)
       /\ Returned("findSimilarProfiles") =>
              /\ \A r \in Ranked : Decays(r)
              /\ \A r, q \in Ranked : r.distance <= q.distance => r.similarity >= q.similarity

\* a ranking that holds a candidate at distance 0 and one below 10 %
C16_Witness ==
    /\ Returned("findSimilarProfiles")
    /\ \E r, q \in Ranked :
           /\ r.distance = 0 /\ r.similarity = Thousandths(100)
           /\ q.distance > 23025 /\ q.similarity < Thousandths(10) /\ q.similarity > 0

\* C17: the differences of compareProfiles have as keys exactly the keys of the
\* union of the two measurement mappings whose values differ (an absent key
\* counting as 0), each with val1, val2 and delta = val2 - val1; there is no
\* entry exactly when the distance is 0.
C17_DifferencesAreTheUnequalKeys ==
    Returned("compareProfiles") =>
        LET a == profile1.cannabinoids
            b == profile2.cannabinoids
            differences == analysis.differences
        IN /\ MapKeys(differences) =
                  {k \in KeyUnion(a, b) : ValueAt(a, k) # ValueAt(b, k)}
           /\ Cardinality(MapKeys(differences)) = Len(differences)
           /\ \A i \in 1..Len(differences) :
                  differences[i].value =
                      [val1 |-> ValueAt(a, differences[i].key),
                       val2 |-> ValueAt(b, differences[i].key),
                       delta |-> ValueAt(b, differences[i].key)
                                     - ValueAt(a, differences[i].key)]
           /\ differences = <<>> <=> analysis.distance = 0

\* THC is equal and omitted, CBD differs, CBN is absent from the second profile
C17_Witness ==
    /\ Returned("compareProfiles")
    /\ profile1.cannabinoids = Measured /\ profile2.cannabinoids = LessCBD
    /\ MapKeys(analysis.differences) = {CBD, CBN}
    /\ MapGet(analysis.differences, CBN) = [val1 |-> 2, val2 |-> 0, delta |-> -2]

\* the limit and the minimum in force, and the similarity of every candidate
LimitInForce == IF limit = Undefined THEN 5 ELSE limit.num
MinimumInForce == Thousandths(IF minSimilarity = Undefined THEN 50 ELSE minSimilarity.num)
Candidate(i) == allProfiles.arr[i]
Similarities ==
    [i \in 1..Len(allProfiles.arr) |->
        similarity(calculateEuclideanDistance(targetProfile.cannabinoids,
                                              Candidate(i).cannabinoids))]
SimilarityOf(i) == Similarities[i]

\* the candidates of another batch that reach a minimum, sims being the
\* similarities of the candidates
Passing(sims, minimum) ==
    {i \in 1..Len(allProfiles.arr) :
        /\ Candidate(i).batchId # targetProfile.batchId
        /\ sims[i] >= minimum}
Qualifying == Passing(Similarities, MinimumInForce)

\* the place of candidate i among the candidates q: behind the more similar
\* ones and behind the equally similar ones that come earlier in the list
PlaceAmong(sims, q, i) ==
    1 + Cardinality({j \in q : sims[j] > sims[i] \/ (sims[j] = sims[i] /\ j < i)})
Place(i) == PlaceAmong(Similarities, Qualifying, i)

\* C18: findSimilarProfiles returns no candidate with the batchId of the target
\* and none whose similarity is below minSimilarity; when the limit does not
\* cut, every other candidate is returned, as often as it occurs.
C18_OnlyAndAllQualifying ==
    Returned("findSimilarProfiles") =>
        \A q \in {Qualifying} :
            /\ \A r \in Ranked :
                   /\ r.profile.batchId # targetProfile.batchId
                   /\ r.similarity >= MinimumInForce
                   /\ \E i \in q : Candidate(i) = r.profile
            /\ Cardinality(q) <= LimitInForce =>
                   \A i \in q :
                       Cardinality({k \in 1..Len(analysis.arr) :
                                       analysis.arr[k].profile = Candidate(i)})
                           = Cardinality({j \in q : Candidate(j) = Candidate(i)})

\* the target is not a candidate; a candidate under its batchId and one below
\* the minimum are left out, the third one is returned
C18_Witness ==
    /\ Returned("findSimilarProfiles")
    /\ \A i \in 1..Len(allProfiles.arr) : Candidate(i) # targetProfile
    /\ \E i, j \in 1..Len(allProfiles.arr) :
           /\ Candidate(i).batchId = targetProfile.batchId
           /\ Candidate(j).batchId # targetProfile.batchId
           /\ SimilarityOf(j) < MinimumInForce
    /\ Len(allProfiles.arr) = 3
    /\ Len(analysis.arr) = 1

\* C19: the result is in descending order of similarity, candidates of equal
\* similarity are in the order of the candidate list, and the ranks are
\* 1, 2, ..., n in the order of the result.
C19_SortedStableRanked ==
    Returned("findSimilarProfiles") =>
        LET n == Len(analysis.arr)
        IN /\ \A k \in 1..n : analysis.arr[k].rank = k
           /\ \A k, l \in 1..n :
                  k < l => analysis.arr[k].similarity >= analysis.arr[l].similarity
           /\ \A sims \in {Similarities} : \A q \in {Passing(sims, MinimumInForce)} :
                  \A i \in q : \A place \in {PlaceAmong(sims, q, i)} :
                      place <= n =>
                          /\ analysis.arr[place].profile = Candidate(i)
                          /\ analysis.arr[place].similarity = sims[i]

\* the last candidate is the most similar one, the two before it are equally
\* similar and stay in their order
C19_Witness ==
    /\ Returned("findSimilarProfiles")
    /\ Len(allProfiles.arr) = 3 /\ Len(analysis.arr) = 3
    /\ analysis.arr[1].profile = Candidate(3)
    /\ analysis.arr[2].profile = Candidate(1)
    /\ analysis.arr[3].profile = Candidate(2)
    /\ analysis.arr[2].similarity = analysis.arr[3].similarity
    /\ Candidate(1) # Candidate(2)

-----------------------------------------------------------------------------
(* The classifier and the completeness score *)

\* the THC and the CBD value of the profile passed, 0 when absent
ThcOf == ValueAt(profileArg.cannabinoids, THC)
CbdOf == ValueAt(profileArg.cannabinoids, CBD)

\* C21: classifyStrain gives exactly one type, by strict comparisons: THC-Dominant
\* if thc > 2 * cbd, else CBD-Dominant if cbd > 2 * thc, else Balanced if thc > 0
\* or cbd > 0, else Unknown, with 0 for an absent THC or CBD; where one of the two
\* is positive and exactly the double of the other the type is Balanced.
C21_OneTypeStrictly ==
    Returned("classifyStrain") =>
        /\ analysis.type \in {"THC-Dominant", "CBD-Dominant", "Balanced", "Unknown"}
        /\ analysis.type = "THC-Dominant" <=> ThcOf > 2 * CbdOf
        /\ analysis.type = "CBD-Dominant" <=>
               /\ ~ (ThcOf > 2 * CbdOf)
               /\ CbdOf > 2 * ThcOf
        /\ analysis.type = "Balanced" <=>
               /\ ~ (ThcOf > 2 * CbdOf)
               /\ ~ (CbdOf > 2 * ThcOf)
               /\ (ThcOf > 0 \/ CbdOf > 0)
        /\ analysis.type = "Unknown" <=>
               /\ ~ (ThcOf > 2 * CbdOf)
               /\ ~ (CbdOf > 2 * ThcOf)
               /\ ThcOf <= 0 /\ CbdOf <= 0
        /\ \/ ThcOf = 2 * CbdOf /\ ThcOf > 0
           \/ CbdOf = 2 * ThcOf /\ CbdOf > 0
           => analysis.type = "Balanced"

\* a profile whose CBD is exactly the double of its THC is classified Balanced
C21_Witness ==
    /\ Returned("classifyStrain")
    /\ ThcOf > 0 /\ CbdOf = 2 * ThcOf
    /\ analysis.type = "Balanced"

\* C22 as stated: a profile with THC 20 and CBD 10 is classified THC-Dominant.
C22_TwentyTenIsTHCDominant ==
    Returned("classifyStrain") /\ ThcOf = 20 /\ CbdOf = 10 =>
        analysis.type = "THC-Dominant"

\* C22: a profile with THC 20 and CBD 10 is classified Balanced, 20 being no more
\* than the double of 10.
C22_TwentyTenIsBalanced ==
    Returned("classifyStrain") /\ ThcOf = 20 /\ CbdOf = 10 =>
        analysis.type = "Balanced"

C22_Witness ==
    /\ Returned("classifyStrain")
    /\ MapHas(profileArg.cannabinoids, THC) /\ MapHas(profileArg.cannabinoids, CBD)
    /\ ThcOf = 20 /\ CbdOf = 10
    /\ analysis.type = "Balanced"
    /\ analysis.ratio = Str(<<"2", ".", "0", ":", "1", " ", "T", "H", "C", ":", "C", "B", "D">>)

\* C23: scoreProfileCompleteness returns the score min(100, coverage + 20 if the
\* profile has 7 keys or more + 10 if its total is above 10), with the coverage
\* keys / 9 * 100; the score lies between 0 and 100 (here in thousandths).
C23_ScoreFormula ==
    Returned("scoreProfileCompleteness") =>
        LET keys == Cardinality(MapKeys(profileArg.cannabinoids))
            coverage == (keys * 100000) \div 9
            bonuses == (IF keys >= 7 THEN 20000 ELSE 0)
                           + (IF profileArg.totalCannabinoids > 10 THEN 10000 ELSE 0)
        IN /\ analysis.coverage = coverage
           /\ analysis.score = (IF coverage + bonuses > 100000 THEN 100000
                                ELSE coverage + bonuses)
           /\ analysis.score >= 0
           /\ analysis.score <= 100000

\* eight keys and a total above 10: 88.9 + 20 + 10 is capped at 100
C23_Witness ==
    /\ Returned("scoreProfileCompleteness")
    /\ Len(profileArg.cannabinoids) = 8
    /\ profileArg.totalCannabinoids > 10
    /\ analysis.coverage < 100000
    /\ analysis.score = 100000

\* C26: the analysis operations are pure: no call of compareProfiles,
\* findSimilarProfiles, classifyStrain or scoreProfileCompleteness changes an
\* argument, neither a profile (measurements, total, batchId, batchName) nor the
\* content or the order of the candidate array.
C26_ArgumentsUnchanged ==
    [][/\ profile1' = profile1 /\ profile2' = profile2
       /\ profileArg' = profileArg
       /\ targetProfile' = targetProfile
       /\ allProfiles' = allProfiles
       /\ limit' = limit /\ minSimilarity' = minSimilarity]_vars

\* findSimilarProfiles has returned fewer profiles than it was passed, two of them
\* in the opposite of their order in the array passed
C26_Witness ==
    /\ Returned("findSimilarProfiles")
    /\ Len(analysis.arr) >= 2
    /\ Len(analysis.arr) < Len(allProfiles.arr)
    /\ \E i, j \in 1..Len(allProfiles.arr) :
           /\ i < j
           /\ analysis.arr[1].profile = Candidate(j)
           /\ analysis.arr[2].profile = Candidate(i)
           /\ Candidate(i) # Candidate(j)

-----------------------------------------------------------------------------
(* The parser on malformed, repeated and empty input *)

\* C24: no parsing operation raises: parseDataView, parseBatchJSON and
\* parseBatchesJSON return a well-formed result for every input, an absent (null
\* or undefined) table or record, a null element of the record array, absent
\* category or value lists and columns without a values list included.
C24_NoParseRaises ==
    /\ Returned("parseDataView") =>
           /\ result # Threw
           /\ result.parseMode \in {"standard", "cdes", "unknown"}
    /\ Returned("parseBatchJSON") =>
           profiles # Threw /\ {"batchId", "cannabinoids"} \subseteq DOMAIN profiles
    /\ Returned("parseBatchesJSON") =>
           /\ profiles # Threw
           /\ Len(profiles.arr) = Len(batches.arr)

\* the table as it is with an empty list for the absent one
WithEmpty(list) == data @@ (list :> Arr(<<>>))

\* C25: an absent list is treated as an empty list: parseDataView returns for a
\* table without values what it returns for the same table with empty values, and
\* for a table without categories what it returns with empty categories.
C25_AbsentListIsEmptyList ==
    Returned("parseDataView") /\ data \notin {Null, Undefined} =>
        /\ "values" \notin DOMAIN data => result = parseDataView(WithEmpty("values"))
        /\ "categories" \notin DOMAIN data =>
               result = parseDataView(WithEmpty("categories"))

\* the walked rows of the batch of profile p whose label resolves to the code
RowsOf(p, code) ==
    {r \in RowsWalked : /\ BatchOfRow(r) = p.batchId
                        /\ getCannabioidDisplayName(LabelOfRow(r)) = code}

\* C27: in a long-form result the value stored for a code is the percentage of the
\* last row of the batch that resolves to the code and has a percentage > 0, never
\* a sum; a later row of the code with a percentage <= 0, missing or not a number
\* neither changes nor removes the stored value.
C27_LastPositiveRowWins ==
    Returned("parseDataView") /\ result.parseMode = "standard" =>
        \A p \in Produced :
            \A code \in {getCannabioidDisplayName(LabelOfRow(r)) : r \in RowsWalked} :
                LET positive == {r \in RowsOf(p, code) : Percent(1, r) > 0}
                IN positive # {} =>
                       /\ code \in Keys(p)
                       /\ ValueOf(p, code) = Percent(1, Max(positive))

\* three rows of one batch and one code with 20, 7 and 0: the 7 is stored
C27_Witness ==
    /\ Returned("parseDataView") /\ result.parseMode = "standard"
    /\ \E p \in Produced :
           /\ RowsOf(p, THC) = {1, 2, 3}
           /\ Percent(1, 1) = 20 /\ Percent(1, 2) = 7 /\ Percent(1, 3) = 0
           /\ LabelOfRow(1) # LabelOfRow(2)
           /\ ValueOf(p, THC) = 7

\* the table has two category columns, a value column and a row with a cell in
\* both of the first two category columns
RowInBothColumns ==
    /\ Len(CatCols) >= 2
    /\ Len(ValCols) >= 1
    /\ Len(Cells(CatCols, 1)) >= 1 /\ Len(Cells(CatCols, 2)) >= 1

\* C29: the long-form attempt creates the profile of a batch when it walks a row,
\* before it looks at the percentage: for every table with two category columns,
\* a value column and a row present in both of the first two category columns
\* parseDataView returns the long-form result, the wide-form attempt is not
\* reached, and where no row has a percentage > 0 the profiles have no
\* measurement and the total 0.
C29_ProfileBeforePercentage ==
    Returned("parseDataView") /\ RowInBothColumns =>
        /\ result.parseMode = "standard"
        /\ result = parseStandardStructure(data)
        /\ {p.batchId : p \in Produced} = {BatchOfRow(r) : r \in RowsWalked}
        /\ (\A r \in RowsWalked : Percent(1, r) <= 0) =>
               \A p \in Produced : p.cannabinoids = <<>> /\ p.totalCannabinoids = 0

\* no row has a percentage > 0 in the first value column, and the wide-form
\* attempt would have stored a measurement from the second one
C29_Witness ==
    /\ Returned("parseDataView") /\ RowInBothColumns
    /\ \A r \in RowsWalked : Percent(1, r) <= 0
    /\ result.parseMode = "standard"
    /\ Len(result.profiles) = 1
    /\ result.profiles[1].cannabinoids = <<>>
    /\ \E p \in SeqToSet(parseCDESStructure(data).profiles) : p.cannabinoids # <<>>

-----------------------------------------------------------------------------
(* The completeness score of a parsed profile *)

MaxLabels == 10       \* rows of the long-form tables whose profile is scored

\* labels the resolver maps to the nine codes, and labels it passes through
Labels == <<THC, CBD, CBN, CBG, CBC, <<"V">>, <<"D", "V">>, <<"D", "A">>, <<"C", "A">>,
            Foo, abc, b1>>

\* n rows of one batch, with the labels from number start on
LabelledLong(start, n) ==
    Table(<<Column([i \in 1..n |-> Str(b1)]),
            Column([i \in 1..n |-> Str(Labels[((start + i - 2) % Len(Labels)) + 1])])>>,
          <<Column([i \in 1..n |-> Num(i)])>>)

InitParsedScore ==
    /\ pc = "call"
    /\ Idle
    /\ name = Undefined
    /\ NoAnalyzerCall
    /\ NoReferenceCall
    /\ \/ /\ op = "parseDataView" /\ batches = Undefined
          /\ \/ \E start \in 1..Len(Labels), n \in 0..MaxLabels :
                    data = LabelledLong(start, n)
             \/ \E k \in WideColumnCounts : data = WideTable(<<<<Str(b1), 1>>>>, k)
             \/ data \in {TestStandard, TestMultiple, TestCDES}
       \/ op = "parseBatchJSON" /\ data = Undefined /\ batches \in BatchRecords

\* scoreProfileCompleteness called with a profile the parser has returned
ScoreParsedProfile ==
    /\ pc = "done" /\ op \in {"parseDataView", "parseBatchJSON"}
    /\ \E p \in Produced :
           /\ profileArg' = p
           /\ analysis' = scoreProfileCompleteness(p)
    /\ pc' = "scored"
    /\ UNCHANGED <<op, data, result, batches, profiles, name, displayName, profile1,
                   profile2, targetProfile, allProfiles, limit, minSimilarity,
                   referenceVars>>

NextParsedScore == ParseDataView \/ ParseBatchJSON \/ ScoreParsedProfile

SpecParsedScore == InitParsedScore /\ [][NextParsedScore]_vars

\* C28: for every profile parseDataView or parseBatchJSON produces,
\* scoreProfileCompleteness reports a coverage between 0 and 100 (here in
\* thousandths): the profile never has more than 9 keys, also when the long-form
\* input carries labels that the resolver passes through.
C28_CoverageWithinHundred ==
    pc = "scored" =>
        /\ Len(profileArg.cannabinoids) <= 9
        /\ analysis.coverage >= 0
        /\ analysis.coverage <= 100000

-----------------------------------------------------------------------------
(* The cache of the reference data (reference.ts) *)

MaxCalls == 2         \* calls of the fetching functions of reference.ts
MaxClears == 1        \* calls of clearReferenceCache
MaxRequests == 5      \* requests issued in all

Resources == {"terpeneColorsCache", "terpeneLibraryCache", "terpeneExtendedCache",
              "cannabinoidLibraryCache"}

\* the fetch functions an exported function calls before it awaits anything, by
\* the cache variable of each, in the order of the calls
Fetched(fn) ==
    CASE fn = "fetchTerpeneColors" -> <<"terpeneColorsCache">>
      [] fn = "fetchTerpeneLibrary" -> <<"terpeneLibraryCache">>
      [] fn = "fetchTerpeneExtended" -> <<"terpeneExtendedCache">>
      [] fn = "fetchCannabinoidLibrary" -> <<"cannabinoidLibraryCache">>
      [] fn = "fetchAllTerpenes" ->
             <<"terpeneLibraryCache", "terpeneExtendedCache", "terpeneColorsCache">>
      [] fn = "getTerpeneColor" -> <<"terpeneColorsCache">>
      [] fn = "getCannabinoidColor" -> <<"cannabinoidLibraryCache">>
      [] fn = "preloadReferenceData" ->
             <<"terpeneColorsCache", "terpeneLibraryCache", "terpeneExtendedCache",
               "cannabinoidLibraryCache">>

\* the JSON document of a resource; the documents of the repository are objects
Document(resource) == [title |-> resource]

\* The fetch functions of caller c run up to their first await, one after the
\* other: each returns the cached document if its cache variable is set, and
\* otherwise issues its request with fetch(URL).
RECURSIVE Requests(_, _, _)
Requests(issued, resources, c) ==
    IF resources = <<>> THEN issued
    ELSE Requests(IF Truthy(cache[Head(resources)]) THEN issued
                  ELSE Append(issued, [resource |-> Head(resources), caller |-> c,
                                       stage |-> "requested", epoch |-> cleared]),
                  Tail(resources), c)

\* a call of the exported function fn, up to the point where it awaits
Call(fn) ==
    /\ Len(callers) < MaxCalls
    /\ Len(Requests(fetches, Fetched(fn), Len(callers) + 1)) <= MaxRequests
    /\ callers' = Append(callers, fn)
    /\ fetches' = Requests(fetches, Fetched(fn), Len(callers) + 1)
    /\ UNCHANGED <<cache, cleared>>

otherVars == <<op, pc, data, result, batches, profiles, name, displayName, analyzerVars>>

FetchTerpeneColors == Call("fetchTerpeneColors") /\ UNCHANGED otherVars
FetchTerpeneLibrary == Call("fetchTerpeneLibrary") /\ UNCHANGED otherVars
FetchTerpeneExtended == Call("fetchTerpeneExtended") /\ UNCHANGED otherVars
FetchCannabinoidLibrary == Call("fetchCannabinoidLibrary") /\ UNCHANGED otherVars
FetchAllTerpenes == Call("fetchAllTerpenes") /\ UNCHANGED otherVars
GetTerpeneColor == Call("getTerpeneColor") /\ UNCHANGED otherVars
GetCannabinoidColor == Call("getCannabinoidColor") /\ UNCHANGED otherVars
PreloadReferenceData == Call("preloadReferenceData") /\ UNCHANGED otherVars

\* the response of request i arrives: with response.ok the fetch function goes on
\* to await response.json(), without it the function throws
Respond ==
    /\ \E i \in 1..Len(fetches) :
           /\ fetches[i].stage = "requested"
           /\ \E ok \in BOOLEAN :
                  fetches' = [fetches EXCEPT
                                 ![i].stage = IF ok THEN "reading" ELSE "threw"]
    /\ UNCHANGED <<cache, callers, cleared>>
    /\ UNCHANGED otherVars

\* response.json() of request i resolves: the document is assigned to the cache
\* variable and returned
ReadBody ==
    /\ \E i \in 1..Len(fetches) :
           /\ fetches[i].stage = "reading"
           /\ cache' = [cache EXCEPT ![fetches[i].resource] =
                                         Document(fetches[i].resource)]
           /\ fetches' = [fetches EXCEPT ![i].stage = "cached"]
    /\ UNCHANGED <<callers, cleared>>
    /\ UNCHANGED otherVars

\* response.json() of request i rejects: the fetch function throws
ReadFails ==
    /\ \E i \in 1..Len(fetches) :
           /\ fetches[i].stage = "reading"
           /\ fetches' = [fetches EXCEPT ![i].stage = "rejected"]
    /\ UNCHANGED <<cache, callers, cleared>>
    /\ UNCHANGED otherVars

ClearReferenceCache ==
    /\ cleared < MaxClears
    /\ cache' = [r \in Resources |-> Null]
    /\ cleared' = cleared + 1
    /\ UNCHANGED <<callers, fetches>>
    /\ UNCHANGED otherVars

InitReference ==
    /\ op = "reference" /\ pc = "call"
    /\ Idle
    /\ data = Undefined /\ batches = Undefined /\ name = Undefined
    /\ NoAnalyzerCall
    /\ NoReferenceCall

NextReference ==
    \/ FetchTerpeneColors
    \/ FetchTerpeneLibrary
    \/ FetchTerpeneExtended
    \/ FetchCannabinoidLibrary
    \/ FetchAllTerpenes
    \/ GetTerpeneColor
    \/ GetCannabinoidColor
    \/ PreloadReferenceData
    \/ Respond
    \/ ReadBody
    \/ ReadFails
    \/ ClearReferenceCache

SpecReference == InitReference /\ [][NextReference]_vars

\* the requests for a resource issued since the last clearReferenceCache
IssuedSinceClear(resource) ==
    {i \in 1..Len(fetches) : fetches[i].resource = resource /\ fetches[i].epoch = cleared}

\* C30: between two calls of clearReferenceCache at most one request is issued
\* per resource as long as no request fails, also when a second caller asks for
\* the resource while the first request is in flight.
C30_OneRequestPerResource ==
    (\A i \in 1..Len(fetches) : fetches[i].stage \notin {"threw", "rejected"}) =>
        \A resource \in Resources : Cardinality(IssuedSinceClear(resource)) <= 1

====
